---- MODULE Spec2Model ----
(***************************************************************************)
(* A model of the matching core of hft-simulator: the order book           *)
(* (order_book.rs), the matching engine (matching_engine.rs) and the       *)
(* position accounting of the risk manager (risk_management.rs).           *)
(*                                                                         *)
(* Quantities and prices are small integers (the f64 / Decimal values the  *)
(* code handles are exact on them).  The average entry price, which the    *)
(* code obtains by a Decimal division, is kept as an exact fraction        *)
(* <<numerator, denominator>> in lowest terms.                             *)
(***************************************************************************)
EXTENDS Integers, Sequences, FiniteSets, TLC

VARIABLES
    bids,            \* OrderBook.bids  : symbol -> (price -> Vec<Order>), iterated high to low
    asks,            \* OrderBook.asks  : symbol -> (price -> Vec<Order>), iterated low to high
    order_index,     \* OrderBook.order_index : id -> (symbol, price, side)
    current_positions, \* RiskManager.current_positions : symbol -> position
    avg_entry_prices,  \* RiskManager.avg_entry_prices  : symbol -> fraction
    realized_pnl,      \* RiskManager.realized_pnl      : symbol -> amount
    max_order_size,    \* RiskManager.max_order_size
    position_limits,   \* RiskManager.position_limits   : symbol -> limit
    message_rx,      \* the engine's channel: the messages sent and not yet received
    senders,         \* the producers that still hold a sender of the channel
    run_pc,          \* where MatchingEngine::run is: "recv" or "returned"
    adding,          \* the add_order call under way, between its two writes: <<>> or <<order>>
    pc,              \* per thread, the statement of the call it is in, or "idle"
    local,           \* per thread, the arguments and the local variables of its call
    locks,           \* per map and symbol, the shard lock: its writer and its readers
    next_id,         \* ORDER_ID_COUNTER of main.rs
    insertions,      \* history: number of orders ever pushed onto a level
    processed,       \* history: number of messages the engine has processed
    lastMsg,         \* history: the message the engine processed last
    lastFills,       \* history: the fills (the "Match:" log lines) of that message
    fillSum,         \* history: per symbol, the signed sum of all fills so far
    sent,            \* history: per producer, the number of messages it has sent
    ledger           \* history: per order id, the quantity submitted and the quantity filled

vars == <<bids, asks, order_index, current_positions, avg_entry_prices,
          realized_pnl, max_order_size, position_limits, message_rx,
          senders, run_pc, adding, pc, local, locks,
          next_id, insertions, processed, lastMsg, lastFills, fillSum, sent, ledger>>

----------------------------------------------------------------------------
(* Bounds of the model.                                                    *)

MaxMsgs == 3         \* messages the engine processes in one behaviour
MaxPrice == 2        \* limit prices are 0 (invalid) .. MaxPrice
MaxQty == 3          \* submitted quantities are -1, 0 (both invalid) .. MaxQty

Symbols == {"AAPL", "MSFT"}
Sides == {"Buy", "Sell"}
OrderTypes == {"Limit", "Market"}
Prices == 0..MaxPrice
Quantities == (0 - 1)..MaxQty

----------------------------------------------------------------------------
(* Maps (DashMap, BTreeMap) as functions with an explicit domain.          *)

EmptyMap == [k \in {} |-> 0]

Put(f, k, v) == [x \in (DOMAIN f) \cup {k} |-> IF x = k THEN v ELSE f[x]]

Remove(f, k) == [x \in (DOMAIN f) \ {k} |-> f[x]]

RemoveAll(f, ks) == [x \in (DOMAIN f) \ ks |-> f[x]]

Min(a, b) == IF a <= b THEN a ELSE b

Abs(a) == IF a < 0 THEN 0 - a ELSE a

RECURSIVE AscSeq(_)
AscSeq(S) ==
    IF S = {} THEN <<>>
    ELSE LET m == CHOOSE x \in S : \A y \in S : x <= y
         IN  <<m>> \o AscSeq(S \ {m})

RECURSIVE DescSeq(_)
DescSeq(S) ==
    IF S = {} THEN <<>>
    ELSE LET m == CHOOSE x \in S : \A y \in S : x >= y
         IN  <<m>> \o DescSeq(S \ {m})

SelectIdx(s, keep) ==
    LET F[i \in 0..Len(s)] ==
            IF i = 0 THEN <<>>
            ELSE IF i \in keep THEN Append(F[i - 1], s[i]) ELSE F[i - 1]
    IN  F[Len(s)]

----------------------------------------------------------------------------
(* Orders.                                                                 *)

\* order_book.rs Order; seq is the history stamp add_order gives an order
\* when it pushes it onto a level (0 for an order that is not resting).
Order(id, symbol, price, quantity, order_type, side) ==
    [id |-> id, symbol |-> symbol, price |-> price, quantity |-> quantity,
     order_type |-> order_type, side |-> side, seq |-> 0]

NoOrder == Order(0, "AAPL", 0, 0, "Limit", "Buy")

\* The ladder of a symbol in a DashMap, or the empty ladder when the symbol is absent.
LadderOf(book, symbol) == IF symbol \in DOMAIN book THEN book[symbol] ELSE EmptyMap

\* A faulty variant of IterKeys: both ladders are iterated from the lowest price.
IterKeysAscending(ladder, opposite_is_asks) == AscSeq(DOMAIN ladder)

\* Iteration order of the two BTreeMaps: asks by OrderedFloat, bids by Reverse<OrderedFloat>.
IterKeys(ladder, opposite_is_asks) ==
    IF opposite_is_asks THEN AscSeq(DOMAIN ladder) ELSE DescSeq(DOMAIN ladder)

----------------------------------------------------------------------------
(* OrderBook (order_book.rs).  A book state bk is a record holding bids,   *)
(* asks, order_index and insertions.                                       *)

\* A faulty variant of AddOrderAccepts: the order type is not looked at.
AddOrderAcceptsAnyType(order) == ~(order.price <= 0 \/ order.quantity <= 0)

\* A faulty variant of AddOrderAccepts: the quantity is not looked at.
AddOrderAcceptsAnyQuantity(order) == order.order_type = "Limit" /\ ~(order.price <= 0)

\* add_order's two early returns: only valid limit orders enter the book.
AddOrderAccepts(order) ==
    /\ order.order_type = "Limit"
    /\ ~(order.price <= 0 \/ order.quantity <= 0)

\* A faulty variant of PushOrder: the order is put at the head of the level.
PushOrderAtHead(level, order) == <<order>> \o level

\* bids.entry(price_key).or_insert_with(Vec::new).push(order)
PushOrder(level, order) == Append(level, order)

InsertIntoLadder(book, order, stamp) ==
    LET ladder == LadderOf(book, order.symbol)
        level  == IF order.price \in DOMAIN ladder THEN ladder[order.price] ELSE <<>>
        rested == [order EXCEPT !.seq = stamp]
    IN  Put(book, order.symbol, Put(ladder, order.price, PushOrder(level, rested)))

add_order(bk, order) ==
    IF ~AddOrderAccepts(order) THEN bk
    ELSE LET stamp == bk.insertions + 1
             index == Put(bk.order_index, order.id,
                          [symbol |-> order.symbol, price |-> order.price, side |-> order.side])
         IN  IF order.side = "Buy"
             THEN [bk EXCEPT !.order_index = index, !.insertions = stamp,
                             !.bids = InsertIntoLadder(bk.bids, order, stamp)]
             ELSE [bk EXCEPT !.order_index = index, !.insertions = stamp,
                             !.asks = InsertIntoLadder(bk.asks, order, stamp)]

\* A faulty variant of Retain: the whole level is dropped.
RetainNone(orders, order_id) == <<>>

\* orders.retain(|o| o.id != order_id)
Retain(orders, order_id) ==
    SelectIdx(orders, {i \in 1..Len(orders) : orders[i].id # order_id})

\* The side-specific half of cancel_order: the new side and the returned flag.
CancelInSide(book, sym, price, order_id) ==
    IF sym \notin DOMAIN book THEN [book |-> book, cancelled |-> FALSE]
    ELSE IF price \notin DOMAIN book[sym] THEN [book |-> book, cancelled |-> FALSE]
    ELSE LET orders == book[sym][price]
             kept   == Retain(orders, order_id)
             ladder == IF kept = <<>> THEN Remove(book[sym], price)
                       ELSE Put(book[sym], price, kept)
         IN  [book |-> Put(book, sym, ladder), cancelled |-> Len(orders) # Len(kept)]

\* cancel_order: the new book state and the returned flag.
cancel_order(bk, order_id) ==
    IF order_id \notin DOMAIN bk.order_index THEN [bk |-> bk, cancelled |-> FALSE]
    ELSE LET e   == bk.order_index[order_id]
             bk1 == [bk EXCEPT !.order_index = Remove(bk.order_index, order_id)]
         IN  IF e.side = "Buy"
             THEN LET r == CancelInSide(bk1.bids, e.symbol, e.price, order_id)
                  IN  [bk |-> [bk1 EXCEPT !.bids = r.book], cancelled |-> r.cancelled]
             ELSE LET r == CancelInSide(bk1.asks, e.symbol, e.price, order_id)
                  IN  [bk |-> [bk1 EXCEPT !.asks = r.book], cancelled |-> r.cancelled]

----------------------------------------------------------------------------
(* RiskManager (risk_management.rs).  A risk state rk is a record holding  *)
(* current_positions, avg_entry_prices and realized_pnl.                   *)

RECURSIVE Gcd(_, _)
Gcd(a, b) == IF b = 0 THEN a ELSE Gcd(b, a % b)

\* The fraction n/d (d > 0) in lowest terms.
Frac(n, d) ==
    LET g == Gcd(Abs(n), d)
    IN  IF g = 0 THEN <<0, 1>> ELSE <<n \div g, d \div g>>

\* (avg_price * |current_position| + price * |quantity|) / |current_position|
ModifiedAvg(avg_price, current_position, price, quantity) ==
    Frac(avg_price[1] * Abs(current_position) + price * Abs(quantity) * avg_price[2],
         avg_price[2] * Abs(current_position))

\* A faulty variant of QuantityRejected: only a negative quantity returns early.
QuantityRejectedBelowZero(quantity) == quantity < 0

\* if quantity <= Decimal::ZERO { return; }
QuantityRejected(quantity) == quantity <= 0

record_transaction(rk, symbol, price, quantity, side) ==
    IF QuantityRejected(quantity) THEN rk
    ELSE LET signed_quantity == IF side = "Buy" THEN quantity ELSE 0 - quantity
             old == IF symbol \in DOMAIN rk.current_positions
                    THEN rk.current_positions[symbol] ELSE 0
             current_position == old + signed_quantity
             avg == IF symbol \in DOMAIN rk.avg_entry_prices
                    THEN IF current_position # 0
                         THEN ModifiedAvg(rk.avg_entry_prices[symbol], current_position,
                                          price, quantity)
                         ELSE rk.avg_entry_prices[symbol]
                    ELSE <<price, 1>>
             pnl == IF symbol \in DOMAIN rk.realized_pnl THEN rk.realized_pnl[symbol] ELSE 0
         IN  [current_positions |-> Put(rk.current_positions, symbol, current_position),
              avg_entry_prices  |-> Put(rk.avg_entry_prices, symbol, avg),
              realized_pnl      |-> Put(rk.realized_pnl, symbol, pnl)]

\* RiskManager::update_position(&order, fill_qty): called by the engine, defined in
\* no source file; taken to record one transaction of fill_qty at the order's
\* price and side, as the design's "record fills" step has it.
update_position(rk, order, fill_qty) ==
    record_transaction(rk, order.symbol, order.price, fill_qty, order.side)

----------------------------------------------------------------------------
(* MatchingEngine (matching_engine.rs).                                    *)

\* A faulty variant of MatchQty: the resting order is always taken whole.
MatchQtyWhole(remaining_qty, resting_qty) == resting_qty

\* let match_qty = remaining_qty.min(ask_order.quantity)
MatchQty(remaining_qty, resting_qty) == Min(remaining_qty, resting_qty)

\* A faulty variant of PriceGate: the walk never stops at a price.
PriceGateOpen(order, level_price, is_bid) == FALSE

\* The break of a limit order's level loop: the level no longer crosses the limit.
PriceGate(order, level_price, is_bid) ==
    IF is_bid THEN level_price > order.price ELSE level_price < order.price

\* One iteration of the inner loop: the resting order at idx is matched.  w holds
\* the opposite ladder, the remaining quantity, the fills so far, the indices
\* marked for removal and whether the loop has hit its break.
FillResting(w, order, level_price, idx) ==
    LET resting   == w.ladder[level_price][idx]
        match_qty == MatchQty(w.remaining_qty, resting.quantity)
    IN  [ladder |-> [w.ladder EXCEPT ![level_price][idx].quantity = @ - match_qty],
         remaining_qty |-> w.remaining_qty - match_qty,
         fills |-> Append(w.fills,
                     [symbol |-> order.symbol,
                      price |-> level_price,
                      quantity |-> match_qty,
                      idx |-> idx,
                      taker |-> order.id,
                      taker_side |-> order.side,
                      maker |-> resting.id,
                      maker_seq |-> resting.seq,
                      remaining_before |-> w.remaining_qty,
                      remaining_after |-> w.remaining_qty - match_qty,
                      before |-> w.ladder,
                      after |-> [w.ladder EXCEPT ![level_price][idx].quantity = @ - match_qty]]),
         filled_indices |-> IF resting.quantity - match_qty <= 0
                            THEN w.filled_indices \cup {idx} ELSE w.filled_indices,
         to_remove |-> w.to_remove,
         done |-> (w.remaining_qty - match_qty <= 0)]

\* The inner loop over one level, in index order, until the break.
WalkLevel(m, order, level_price) ==
    LET W[idx \in 0..Len(m.ladder[level_price])] ==
            IF idx = 0 THEN [m EXCEPT !.filled_indices = {}, !.done = FALSE]
            ELSE IF W[idx - 1].done THEN W[idx - 1]
            ELSE FillResting(W[idx - 1], order, level_price, idx)
    IN  W[Len(m.ladder[level_price])]

\* The end of one iteration of the outer loop: marked orders are removed and an
\* empty level is noted for removal.
Compact(w, level_price) ==
    LET level  == w.ladder[level_price]
        orders == SelectIdx(level, (1..Len(level)) \ w.filled_indices)
    IN  [w EXCEPT !.ladder[level_price] = orders,
                  !.to_remove = IF orders = <<>> THEN @ \cup {level_price} ELSE @,
                  !.done = (w.remaining_qty <= 0)]

\* The outer loop over the levels of the opposite ladder, in its iteration order,
\* until one of its two breaks.
WalkLevels(m, order, keys, is_bid, is_limit) ==
    LET L[k \in 0..Len(keys)] ==
            IF k = 0 THEN m
            ELSE IF L[k - 1].done THEN L[k - 1]
            ELSE IF is_limit /\ PriceGate(order, keys[k], is_bid)
                 THEN [L[k - 1] EXCEPT !.done = TRUE]
            ELSE Compact(WalkLevel(L[k - 1], order, keys[k]), keys[k])
    IN  L[Len(keys)]

\* A faulty variant of RemoveEmptyLevels: the noted levels stay in the ladder.
KeepEmptyLevels(book, symbol, m) ==
    [book |-> Put(book, symbol, m.ladder),
     remaining_qty |-> m.remaining_qty, fills |-> m.fills]

\* The end of the matching block: the levels noted for removal are removed.
RemoveEmptyLevels(book, symbol, m) ==
    [book |-> Put(book, symbol, RemoveAll(m.ladder, m.to_remove)),
     remaining_qty |-> m.remaining_qty, fills |-> m.fills]

\* The matching block of process_limit_order / process_market_order on the
\* opposite side of the book: the new side, the remaining quantity and the fills.
MatchSide(book, order, remaining_qty, is_bid, is_limit) ==
    IF order.symbol \notin DOMAIN book
    THEN [book |-> book, remaining_qty |-> remaining_qty, fills |-> <<>>]
    ELSE RemoveEmptyLevels(book, order.symbol,
            WalkLevels([ladder |-> book[order.symbol],
                        remaining_qty |-> remaining_qty,
                        fills |-> <<>>,
                        filled_indices |-> {},
                        to_remove |-> {},
                        done |-> FALSE],
                       order, IterKeys(book[order.symbol], is_bid), is_bid, is_limit))

\* The engine state st is a record holding bk (the book state), rk (the risk
\* state), fills (the fills of the message being processed) and remaining_qty
\* (the callee's local of that name).
WithSide(st, r, is_bid) ==
    [bk |-> IF is_bid THEN [st.bk EXCEPT !.asks = r.book] ELSE [st.bk EXCEPT !.bids = r.book],
     rk |-> st.rk,
     remaining_qty |-> r.remaining_qty,
     fills |-> r.fills]

Matched(st, order, remaining_qty, is_bid, is_limit) ==
    WithSide(st,
             MatchSide(IF is_bid THEN st.bk.asks ELSE st.bk.bids,
                       order, remaining_qty, is_bid, is_limit),
             is_bid)

\* if remaining_qty > 0.0 { update_position(&order, fill_qty); add_order(new_order) }
RestRemainder(st, order, remaining_qty) ==
    IF remaining_qty > 0
    THEN [st EXCEPT !.rk = update_position(@, order, order.quantity - remaining_qty),
                    !.bk = add_order(@, [order EXCEPT !.quantity = remaining_qty])]
    ELSE st

\* if remaining_qty > 0.0 { update_position(&order, fill_qty); println!(..) }
ReportRemainder(st, order, remaining_qty) ==
    IF remaining_qty > 0
    THEN [st EXCEPT !.rk = update_position(@, order, order.quantity - remaining_qty)]
    ELSE st

LimitTail(st, order) == RestRemainder(st, order, st.remaining_qty)

MarketTail(st, order) == ReportRemainder(st, order, st.remaining_qty)

process_limit_order(st, order, remaining_qty, is_bid) ==
    LimitTail(Matched(st, order, remaining_qty, is_bid, TRUE), order)

process_market_order(st, order, remaining_qty, is_bid) ==
    MarketTail(Matched(st, order, remaining_qty, is_bid, FALSE), order)

\* process_order: remaining_qty is the local copy of order.quantity, which the
\* two callees receive by value and never write back.
process_order(st, order) ==
    RestRemainder(
        IF order.order_type = "Limit"
        THEN IF order.price > 0
             THEN process_limit_order(st, order, order.quantity, order.side = "Buy")
             ELSE st
        ELSE process_market_order(st, order, order.quantity, order.side = "Buy"),
        order, order.quantity)

process_cancellation(st, order_id) ==
    [st EXCEPT !.bk = cancel_order(@, order_id).bk]

----------------------------------------------------------------------------
(* The engine's consumer loop (run) fed by the producers of main.rs.       *)

BookState == [bids |-> bids, asks |-> asks, order_index |-> order_index,
              insertions |-> insertions]

RiskState == [current_positions |-> current_positions,
              avg_entry_prices |-> avg_entry_prices, realized_pnl |-> realized_pnl]

EngineState == [bk |-> BookState, rk |-> RiskState, remaining_qty |-> 0, fills |-> <<>>]

SignedFill(f) == IF f.taker_side = "Buy" THEN f.quantity ELSE 0 - f.quantity

RECURSIVE SignedSum(_)
SignedSum(fills) ==
    IF fills = <<>> THEN 0 ELSE SignedFill(Head(fills)) + SignedSum(Tail(fills))

Install(st) ==
    /\ bids' = st.bk.bids
    /\ asks' = st.bk.asks
    /\ order_index' = st.bk.order_index
    /\ insertions' = st.bk.insertions
    /\ current_positions' = st.rk.current_positions
    /\ avg_entry_prices' = st.rk.avg_entry_prices
    /\ realized_pnl' = st.rk.realized_pnl
    /\ UNCHANGED <<max_order_size, position_limits, senders, run_pc, adding, sent,
                   pc, local, locks>>
    /\ lastFills' = st.fills

\* main.rs builds the risk manager with a maximal order size of 1,000,000 and a
\* limit of 10,000 for AAPL, and sends orders of 10 to 1000: here, scaled to the
\* quantities of the model, no order is too large and the limit of AAPL is the
\* largest quantity an order has.
MainMaxOrderSize == MaxQty

MainPositionLimits == [s \in {"AAPL"} |-> MaxQty]

\* The threads that call into the book and the risk manager side by side.
Threads == {"t1", "t2"}

\* The local state of a thread that is in no call.
NoCall == [call |-> "none"]

\* A DashMap locks by shard.  A call locks the shard of one symbol at a time, so
\* two symbols of one shard behave as one symbol does: there is one lock per
\* map and symbol.
Locks == {"current_positions", "avg_entry_prices", "realized_pnl"} \X Symbols

Unlocked == [writer |-> "none", readers |-> {}]

\* The tasks of main.rs that hold a sender of the engine's channel.
Producers == {"order_loop", "market_data"}

\* OrderBook::new, RiskManager::new and MatchingEngine::new: all maps and the
\* channel are empty, every producer holds its sender and run waits in recv.
Constructed ==
    /\ bids = EmptyMap
    /\ asks = EmptyMap
    /\ order_index = EmptyMap
    /\ current_positions = EmptyMap
    /\ avg_entry_prices = EmptyMap
    /\ realized_pnl = EmptyMap
    /\ message_rx = <<>>
    /\ senders = Producers
    /\ run_pc = "recv"
    /\ adding = <<>>
    /\ pc = [t \in Threads |-> "idle"]
    /\ local = [t \in Threads |-> NoCall]
    /\ locks = [l \in Locks |-> Unlocked]
    /\ sent = [producer \in Producers |-> 0]
    /\ ledger = EmptyMap
    /\ next_id = 0
    /\ insertions = 0
    /\ processed = 0
    /\ lastMsg = [order |-> NoOrder, order_id |-> 0, cancelled |-> FALSE, kind |-> "none"]
    /\ lastFills = <<>>
    /\ fillSum = [s \in Symbols |-> 0]

Init ==
    /\ Constructed
    /\ max_order_size = MainMaxOrderSize
    /\ position_limits = MainPositionLimits

\* What run leaves behind after one message.
Delivered(st, msg, symbol) ==
    /\ Install(st)
    /\ lastMsg' = msg
    /\ fillSum' = [fillSum EXCEPT ![symbol] = @ + SignedSum(st.fills)]
    /\ processed' = processed + 1

\* run receives NewOrder(order); the producer took the id from ORDER_ID_COUNTER.
NewOrder(symbol, price, quantity, order_type, side) ==
    /\ processed < MaxMsgs
    /\ Delivered(process_order(EngineState,
                               Order(next_id, symbol, price, quantity, order_type, side)),
                 [order |-> Order(next_id, symbol, price, quantity, order_type, side),
                  order_id |-> next_id,
                  cancelled |-> FALSE,
                  kind |-> "NewOrder"],
                 symbol)
    /\ next_id' = next_id + 1
    /\ UNCHANGED <<message_rx, ledger>>

\* run receives CancelOrder { symbol, order_id }.
CancelOrder(symbol, order_id) ==
    /\ processed < MaxMsgs
    /\ Delivered(process_cancellation(EngineState, order_id),
                 [order |-> NoOrder,
                  order_id |-> order_id,
                  cancelled |-> cancel_order(BookState, order_id).cancelled,
                  kind |-> "CancelOrder"],
                 symbol)
    /\ UNCHANGED <<next_id, message_rx, ledger>>

Next ==
    \/ \E symbol \in Symbols, price \in Prices, quantity \in Quantities,
          order_type \in OrderTypes, side \in Sides :
            NewOrder(symbol, price, quantity, order_type, side)
    \/ \E symbol \in Symbols, order_id \in 0..MaxMsgs : CancelOrder(symbol, order_id)

Spec == Init /\ [][Next]_vars

\* The orders the producers of main.rs send (the order loop and the market-data
\* task): limit orders with a positive price and a positive quantity.
NewLimitOrder(symbol, price, quantity, side) ==
    /\ price > 0
    /\ quantity > 0
    /\ NewOrder(symbol, price, quantity, "Limit", side)

NextProducers ==
    \/ \E symbol \in Symbols, price \in Prices, quantity \in Quantities, side \in Sides :
            NewLimitOrder(symbol, price, quantity, side)
    \/ \E symbol \in Symbols, order_id \in 0..MaxMsgs : CancelOrder(symbol, order_id)

\* The engine fed by the producers of main.rs only.
SpecProducers == Init /\ [][NextProducers]_vars

----------------------------------------------------------------------------
(* What the properties below speak of.                                     *)

\* The places of the resting orders: <<side, symbol, price, index in the level>>.
PlacesIn(book, side) ==
    {<<side, s, p, i>> : s \in Symbols, p \in Prices, i \in 1..(MaxMsgs * 2)} \cap
    {<<side, s, p, i>> : s \in DOMAIN book, p \in Prices, i \in 1..(MaxMsgs * 2)}

Places ==
    {pl \in PlacesIn(bids, "Buy") :
        /\ pl[3] \in DOMAIN bids[pl[2]]
        /\ pl[4] <= Len(bids[pl[2]][pl[3]])}
    \cup
    {pl \in PlacesIn(asks, "Sell") :
        /\ pl[3] \in DOMAIN asks[pl[2]]
        /\ pl[4] <= Len(asks[pl[2]][pl[3]])}

RestingAt(pl) == IF pl[1] = "Buy" THEN bids[pl[2]][pl[3]][pl[4]] ELSE asks[pl[2]][pl[3]][pl[4]]

\* The prices at which a side of a symbol holds at least one resting order.
RestingPrices(book, s) == {p \in DOMAIN LadderOf(book, s) : Len(book[s][p]) > 0}

PositionOf(s) == IF s \in DOMAIN current_positions THEN current_positions[s] ELSE 0

RECURSIVE QtySum(_)
QtySum(S) ==
    IF S = {} THEN 0
    ELSE LET pl == CHOOSE x \in S : TRUE IN RestingAt(pl).quantity + QtySum(S \ {pl})

\* The total quantity resting under an id.
RestingQty(id) == QtySum({pl \in Places : RestingAt(pl).id = id})

RECURSIVE FilledQty(_)
FilledQty(fills) ==
    IF fills = <<>> THEN 0 ELSE Head(fills).quantity + FilledQty(Tail(fills))

LastWasNewOrder == lastMsg.kind = "NewOrder"

LastOrder == lastMsg.order

----------------------------------------------------------------------------
(* C1..C10.                                                                *)

\* C1: crossed-book freedom.  After every processed message, for every symbol
\* with resting buys and resting sells, the highest resting buy price is strictly
\* below the lowest resting sell price.
C1_CrossedBookFreedom ==
    \A s \in Symbols :
        \A pb \in RestingPrices(bids, s), pa \in RestingPrices(asks, s) : pb < pa

\* C2: no dangling index entries.  After every processed message, every id in
\* order_index resolves to a resting order with that id at the recorded
\* (symbol, price, side).
C2_IndexResolves ==
    \A id \in DOMAIN order_index :
        \E pl \in Places :
            /\ RestingAt(pl).id = id
            /\ pl[1] = order_index[id].side
            /\ pl[2] = order_index[id].symbol
            /\ pl[3] = order_index[id].price

\* C3: every resting order is indexed exactly once.  With pairwise-distinct
\* submitted ids, no two resting orders share an id, every resting order's id is
\* in order_index, and order_index has as many entries as there are resting orders.
C3_IndexedExactlyOnce ==
    /\ \A p1 \in Places, p2 \in Places : RestingAt(p1).id = RestingAt(p2).id => p1 = p2
    /\ \A pl \in Places : RestingAt(pl).id \in DOMAIN order_index
    /\ Cardinality(DOMAIN order_index) = Cardinality(Places)

\* C4: position consistency.  After every processed message, the position of each
\* symbol equals the signed sum of all fills of that symbol (+q for an incoming
\* buy, -q for an incoming sell).
C4_PositionConsistency ==
    \A s \in Symbols : PositionOf(s) = fillSum[s]

\* C5: rest remainder.  After a limit order with positive price and quantity Q
\* whose fills sum to F has been processed, exactly Q - F rests under its id
\* (nothing when F = Q).
C5_RestRemainder ==
    (LastWasNewOrder /\ LastOrder.order_type = "Limit" /\ LastOrder.price > 0)
        => RestingQty(LastOrder.id) = LastOrder.quantity - FilledQty(lastFills)

\* One fill, seen through the ladder just before and just after it.
FillConserves(f) ==
    LET b == f.before[f.price][f.idx]
        a == f.after[f.price][f.idx]
    IN  /\ f.quantity = Min(f.remaining_before, b.quantity)
        /\ b.price = f.price
        /\ b.id = f.maker
        /\ f.remaining_after = f.remaining_before - f.quantity
        /\ a = [b EXCEPT !.quantity = b.quantity - f.quantity]
        /\ DOMAIN f.after = DOMAIN f.before
        /\ \A p \in DOMAIN f.before :
              /\ Len(f.after[p]) = Len(f.before[p])
              /\ \A i \in 1..Len(f.before[p]) :
                    (p # f.price \/ i # f.idx) => f.after[p][i] = f.before[p][i]

\* C6: quantity conservation per fill.  Every fill between the incoming order and a
\* resting order has quantity min(incoming remaining, resting remaining), executes
\* at the price of the resting order's level, takes exactly that quantity off both,
\* and changes no other resting order.
C6_QuantityConservation ==
    /\ \A n \in 1..Len(lastFills) : FillConserves(lastFills[n])
    /\ Len(lastFills) > 0 => lastFills[1].remaining_before = LastOrder.quantity
    /\ \A n \in 2..Len(lastFills) :
          lastFills[n].remaining_before = lastFills[n - 1].remaining_after

\* A fill that took part of a resting order and left another resting order of the
\* same ladder alone.
C6_Witness ==
    \E n \in 1..Len(lastFills) :
        LET f == lastFills[n]
        IN  /\ f.quantity > 0
            /\ f.quantity < f.before[f.price][f.idx].quantity
            /\ \E p \in DOMAIN f.before : \E i \in 1..Len(f.before[p]) :
                  (p # f.price \/ i # f.idx) /\ f.before[p][i].quantity > 0

\* C7: limit price gate.  Every fill of an incoming limit buy with limit P has
\* price <= P, and every fill of an incoming limit sell with limit P has price >= P.
C7_LimitPriceGate ==
    (LastWasNewOrder /\ LastOrder.order_type = "Limit")
        => \A n \in 1..Len(lastFills) :
              IF LastOrder.side = "Buy" THEN lastFills[n].price <= LastOrder.price
              ELSE lastFills[n].price >= LastOrder.price

\* A limit buy that filled, was left with a remainder and rested it below an ask
\* level it did not touch.
C7_Witness ==
    /\ LastWasNewOrder /\ LastOrder.order_type = "Limit" /\ LastOrder.side = "Buy"
    /\ Len(lastFills) > 0
    /\ FilledQty(lastFills) < LastOrder.quantity
    /\ \E pa \in RestingPrices(asks, LastOrder.symbol) : pa > LastOrder.price

\* C8: a market order never rests.  After a market order has been processed,
\* filled or not, no order with its id is in a ladder or in order_index.
C8_MarketNeverRests ==
    (LastWasNewOrder /\ LastOrder.order_type = "Market")
        => /\ LastOrder.id \notin DOMAIN order_index
           /\ \A pl \in Places : RestingAt(pl).id # LastOrder.id

\* A market order with a positive price that was filled in part.
C8_Witness ==
    /\ LastWasNewOrder /\ LastOrder.order_type = "Market"
    /\ LastOrder.price > 0
    /\ Len(lastFills) > 0
    /\ 0 < FilledQty(lastFills) /\ FilledQty(lastFills) < LastOrder.quantity

\* Price p is strictly better than q for an incoming order of the given side.
Better(side, p, q) == IF side = "Buy" THEN p < q ELSE p > q

\* C9: strict price priority.  The fills of one incoming order go through ask
\* prices upwards for a buy and bid prices downwards for a sell, and no fill
\* happens at a level while a strictly better level still has resting quantity.
C9_PricePriority ==
    \A n \in 1..Len(lastFills) :
        LET f == lastFills[n]
        IN  /\ \A k \in 1..(n - 1) : ~Better(f.taker_side, f.price, lastFills[k].price)
            /\ \A p \in DOMAIN f.before :
                  Better(f.taker_side, p, f.price)
                      => \A i \in 1..Len(f.before[p]) : f.before[p][i].quantity <= 0

\* An incoming sell that filled at two bid levels.
C9_Witness ==
    /\ LastWasNewOrder /\ LastOrder.side = "Sell"
    /\ \E n \in 1..Len(lastFills), k \in 1..Len(lastFills) :
          lastFills[k].price < lastFills[n].price

\* C10: strict FIFO within a level.  A resting order is filled only when every
\* order inserted before it at its level has been consumed completely.
C10_LevelFifo ==
    \A n \in 1..Len(lastFills) :
        LET f == lastFills[n]
            level == f.before[f.price]
        IN  /\ level[f.idx].seq = f.maker_seq
            /\ \A i \in 1..Len(level) :
                  level[i].seq < f.maker_seq => level[i].quantity <= 0

\* A fill of the later of two orders of different ids resting at one level.
C10_Witness ==
    \E n \in 1..Len(lastFills) :
        LET f == lastFills[n]
            level == f.before[f.price]
        IN  \E i \in 1..Len(level) :
                /\ level[i].seq < f.maker_seq
                /\ level[i].id # f.maker
                /\ f.quantity > 0

----------------------------------------------------------------------------
(* C11..C12: cancellation.                                                 *)

\* The order sequence at (symbol, price) of one side; empty when the symbol or
\* the level is absent.
LevelOf(book, s, p) ==
    IF s \in DOMAIN book /\ p \in DOMAIN book[s] THEN book[s][p] ELSE <<>>

\* The price levels of one side and their order sequences.
Levels(book) == [s \in Symbols, p \in Prices |-> LevelOf(book, s, p)]

\* The levels of one side with the order at place pl taken out.
LevelsWithout(book, side, pl) ==
    [s \in Symbols, p \in Prices |->
        IF side = pl[1] /\ s = pl[2] /\ p = pl[3]
        THEN SelectIdx(LevelOf(book, s, p), (1..Len(LevelOf(book, s, p))) \ {pl[4]})
        ELSE LevelOf(book, s, p)]

IsResting(id) == \E pl \in Places : RestingAt(pl).id = id

\* The step in which the engine processes CancelOrder for order_id.
CancelStep(order_id) ==
    /\ processed' = processed + 1
    /\ lastMsg'.kind = "CancelOrder"
    /\ lastMsg'.order_id = order_id

\* C11: the cancellation of a resting id returns true, takes exactly one resting
\* order (one with that id) out of the book and leaves every other resting order
\* as it was, in its place in its level.
C11_CancelRemovesOne ==
    [][\A order_id \in 0..MaxMsgs :
          (CancelStep(order_id) /\ IsResting(order_id))
              => /\ lastMsg'.cancelled
                 /\ \E pl \in Places :
                       /\ RestingAt(pl).id = order_id
                       /\ Levels(bids') = LevelsWithout(bids, "Buy", pl)
                       /\ Levels(asks') = LevelsWithout(asks, "Sell", pl)]_vars

\* C12: the cancellation of an id that is not resting returns false and changes
\* neither the ladders nor order_index.
C12_CancelUnknownNoOp ==
    [][\A order_id \in 0..MaxMsgs :
          (CancelStep(order_id) /\ ~IsResting(order_id))
              => /\ ~lastMsg'.cancelled
                 /\ Levels(bids') = Levels(bids)
                 /\ Levels(asks') = Levels(asks)
                 /\ order_index' = order_index]_vars

----------------------------------------------------------------------------
(* The order book called directly, as update_from_market_data calls        *)
(* add_order: any order, under a new id or under one already used.         *)

BookAdd(order) ==
    /\ processed < MaxMsgs
    /\ Install([bk |-> add_order(BookState, order), rk |-> RiskState, fills |-> <<>>])
    /\ lastMsg' = [order |-> NoOrder,
                   order_id |-> order.id,
                   cancelled |-> FALSE,
                   kind |-> "add_order",
                   accepted |-> AddOrderAccepts(order)]
    /\ next_id' = IF order.id = next_id THEN next_id + 1 ELSE next_id
    /\ processed' = processed + 1
    /\ UNCHANGED <<fillSum, message_rx, ledger>>

BookCancel(order_id) ==
    /\ processed < MaxMsgs
    /\ Install([bk |-> cancel_order(BookState, order_id).bk, rk |-> RiskState,
                fills |-> <<>>])
    /\ lastMsg' = [order |-> NoOrder,
                   order_id |-> order_id,
                   cancelled |-> cancel_order(BookState, order_id).cancelled,
                   kind |-> "cancel_order"]
    /\ processed' = processed + 1
    /\ UNCHANGED <<next_id, fillSum, message_rx, ledger>>

\* add_order looks at a quantity only to compare it with 0, and cancel_order
\* not at all: one negative, one zero and one positive quantity.
BookQuantities == {0 - 1, 0, 1}

\* The orders a caller may hand to add_order, valid or not.
AnyOrders(ids) ==
    {Order(id, symbol, price, quantity, order_type, side) :
        id \in ids, symbol \in Symbols, price \in Prices, quantity \in BookQuantities,
        order_type \in OrderTypes, side \in Sides}

NextBook ==
    \/ \E order \in AnyOrders(0..next_id) : BookAdd(order)
    \/ \E order_id \in 0..next_id : BookCancel(order_id)

SpecBook == Init /\ [][NextBook]_vars

----------------------------------------------------------------------------
(* C13..C14: add_order and cancel_order as functions of the book state.    *)

\* The ladders and the index of a book state.
Ladders(bk) == [bids |-> Levels(bk.bids), asks |-> Levels(bk.asks),
                order_index |-> bk.order_index]

\* The ids that are in the book: resting or indexed.
IdsInBook == {RestingAt(pl).id : pl \in Places} \cup DOMAIN order_index

\* The valid limit orders whose id is not in the book.
NewValidOrders == {order \in AnyOrders((0..MaxMsgs) \ IdsInBook) : AddOrderAccepts(order)}

\* C13: round trip.  In every book state, adding a valid limit order whose id is
\* not in the book and then cancelling that id returns true and leaves the
\* ladders and order_index as they were before the add.
C13_AddCancelRoundTrip ==
    \A order \in NewValidOrders :
        /\ cancel_order(add_order(BookState, order), order.id).cancelled
        /\ Ladders(cancel_order(add_order(BookState, order), order.id).bk)
              = Ladders(BookState)

\* A book that still holds a resting order after a cancellation has removed
\* another, and to which a further order can be added.
C13_Witness ==
    /\ lastMsg.kind = "cancel_order" /\ lastMsg.cancelled
    /\ Places # {}
    /\ NewValidOrders # {}

\* C14: add_order with an order that is not a limit order, or whose price or
\* quantity is not positive, changes neither the ladders nor order_index.
C14_InvalidAddNoChange ==
    \A order \in AnyOrders(0..MaxMsgs) :
        ~(order.order_type = "Limit" /\ order.price > 0 /\ order.quantity > 0)
            => Ladders(add_order(BookState, order)) = Ladders(BookState)

\* A book with resting orders on which add_order has just turned an order away.
C14_Witness ==
    /\ lastMsg.kind = "add_order" /\ ~lastMsg.accepted
    /\ Places # {}

----------------------------------------------------------------------------
(* C15: what may rest.                                                     *)

NoEmptyLevel(book) ==
    \A s \in DOMAIN book : \A p \in DOMAIN book[s] : Len(book[s][p]) > 0

\* C15: non-positive filtering.  After every processed message no resting order
\* has a price <= 0 or a quantity <= 0, and no ladder holds a level without orders.
C15_NonPositiveFiltering ==
    /\ \A s \in DOMAIN bids : \A p \in DOMAIN bids[s] : \A i \in 1..Len(bids[s][p]) :
          bids[s][p][i].price > 0 /\ bids[s][p][i].quantity > 0 /\ p > 0
    /\ \A s \in DOMAIN asks : \A p \in DOMAIN asks[s] : \A i \in 1..Len(asks[s][p]) :
          asks[s][p][i].price > 0 /\ asks[s][p][i].quantity > 0 /\ p > 0
    /\ NoEmptyLevel(bids)
    /\ NoEmptyLevel(asks)

\* A message whose last fill took the last order of a level, at a price where
\* nothing rests on that side afterwards.
C15_Witness ==
    /\ LastWasNewOrder
    /\ Len(lastFills) > 0
    /\ LET f == lastFills[Len(lastFills)]
       IN  /\ f.after[f.price][f.idx].quantity <= 0
           /\ Len(f.after[f.price]) = 1
           /\ LevelOf(IF f.taker_side = "Buy" THEN asks ELSE bids, f.symbol, f.price) = <<>>

----------------------------------------------------------------------------
(* C16: best bid and best ask.  An Option<f64> is <<>> (None) or <<p>>.    *)

\* BTreeMap::last_key_value, on the keys in the map's iteration order.
last_key_value(keys) == IF keys = <<>> THEN <<>> ELSE <<keys[Len(keys)]>>

\* BTreeMap::first_key_value, on the keys in the map's iteration order.
first_key_value(keys) == IF keys = <<>> THEN <<>> ELSE <<keys[1]>>

get_best_bid(bk, symbol) ==
    IF symbol \notin DOMAIN bk.bids THEN <<>>
    ELSE last_key_value(IterKeys(bk.bids[symbol], FALSE))

get_best_ask(bk, symbol) ==
    IF symbol \notin DOMAIN bk.asks THEN <<>>
    ELSE first_key_value(IterKeys(bk.asks[symbol], TRUE))

HighestOf(S) == IF S = {} THEN <<>> ELSE <<CHOOSE x \in S : \A y \in S : x >= y>>

LowestOf(S) == IF S = {} THEN <<>> ELSE <<CHOOSE x \in S : \A y \in S : x <= y>>

\* C16: get_best_bid returns the highest price among the symbol's resting buy
\* orders and get_best_ask the lowest price among its resting sell orders, and
\* none when the side is empty.
C16_BestBidAsk ==
    \A s \in Symbols :
        /\ get_best_bid(BookState, s) = HighestOf(RestingPrices(bids, s))
        /\ get_best_ask(BookState, s) = LowestOf(RestingPrices(asks, s))

----------------------------------------------------------------------------
(* The risk manager called directly (risk_management.rs).                  *)

\* The RiskManager as validate_order reads it.
RiskManager ==
    [current_positions |-> current_positions,
     max_order_size |-> max_order_size,
     position_limits |-> position_limits]

\* A faulty variant of OrderDelta: the side is not looked at.
OrderDeltaUnsigned(order) == order.quantity

\* let delta = if order.side == OrderSide::Buy { order.quantity } else { -order.quantity }
OrderDelta(order) == IF order.side = "Buy" THEN order.quantity ELSE 0 - order.quantity

validate_order(rm, order) ==
    IF order.quantity > rm.max_order_size THEN FALSE
    ELSE LET current == IF order.symbol \in DOMAIN rm.current_positions
                        THEN rm.current_positions[order.symbol] ELSE 0
             new_position == current + OrderDelta(order)
         IN  IF order.symbol \in DOMAIN rm.position_limits
             THEN IF Abs(new_position) > rm.position_limits[order.symbol]
                  THEN FALSE ELSE TRUE
             ELSE TRUE

\* RiskManager::new(max_order_size): no limit is set yet.
InitRisk ==
    /\ Constructed
    /\ max_order_size \in 1..MaxQty
    /\ position_limits = EmptyMap

\* What a direct call of the risk manager leaves alone.
RiskCall ==
    /\ processed < MaxMsgs
    /\ processed' = processed + 1
    /\ UNCHANGED <<bids, asks, order_index, insertions, next_id, message_rx,
                   max_order_size, lastFills, fillSum, senders, run_pc, adding, sent,
                   pc, local, locks, ledger>>

SetPositionLimit(symbol, limit) ==
    /\ RiskCall
    /\ position_limits' = Put(position_limits, symbol, limit)
    /\ lastMsg' = [order |-> NoOrder, kind |-> "set_position_limit"]
    /\ UNCHANGED <<current_positions, avg_entry_prices, realized_pnl>>

\* validate_order takes &self and only reads.
ValidateOrder(order) ==
    /\ RiskCall
    /\ lastMsg' = [order |-> order,
                   kind |-> "validate_order",
                   result |-> validate_order(RiskManager, order)]
    /\ UNCHANGED <<current_positions, avg_entry_prices, realized_pnl, position_limits>>

\* The history keeps the position, the average entry price and the realized P&L
\* the call found.
RecordTransaction(symbol, price, quantity, side) ==
    /\ RiskCall
    /\ current_positions' =
          record_transaction(RiskState, symbol, price, quantity, side).current_positions
    /\ avg_entry_prices' =
          record_transaction(RiskState, symbol, price, quantity, side).avg_entry_prices
    /\ realized_pnl' =
          record_transaction(RiskState, symbol, price, quantity, side).realized_pnl
    /\ lastMsg' = [order |-> Order(0, symbol, price, quantity, "Limit", side),
                   kind |-> "record_transaction",
                   old_position |-> PositionOf(symbol),
                   old_avg |-> IF symbol \in DOMAIN avg_entry_prices
                               THEN avg_entry_prices[symbol] ELSE <<>>,
                   old_realized |-> IF symbol \in DOMAIN realized_pnl
                                    THEN realized_pnl[symbol] ELSE 0]
    /\ UNCHANGED position_limits

\* validate_order reads the symbol, the quantity and the side of an order.
ValidateInputs ==
    {Order(0, symbol, 1, quantity, "Limit", side) :
        symbol \in Symbols, quantity \in Quantities, side \in Sides}

NextRisk ==
    \/ \E symbol \in Symbols, limit \in 1..MaxQty : SetPositionLimit(symbol, limit)
    \/ \E order \in ValidateInputs : ValidateOrder(order)
    \/ \E symbol \in Symbols, price \in Prices, quantity \in Quantities, side \in Sides :
            RecordTransaction(symbol, price, quantity, side)

SpecRisk == InitRisk /\ [][NextRisk]_vars

----------------------------------------------------------------------------
(* C17: order admission.                                                   *)

\* The two grounds on which an order is to be turned away.
TooLarge(order) == order.quantity > max_order_size

OverLimit(order) ==
    /\ order.symbol \in DOMAIN position_limits
    /\ Abs(PositionOf(order.symbol)
           + (IF order.side = "Buy" THEN order.quantity ELSE 0 - order.quantity))
          > position_limits[order.symbol]

\* C17: validate_order returns false exactly when the order's quantity exceeds
\* max_order_size or a limit exists for its symbol and |position + signed
\* quantity| exceeds it, true in every other case, and a call of it changes no
\* risk state.
C17_ValidateOrder ==
    /\ [](\A order \in ValidateInputs :
             validate_order(RiskManager, order) = ~(TooLarge(order) \/ OverLimit(order)))
    /\ [][(lastMsg'.kind = "validate_order" /\ processed' = processed + 1)
             => UNCHANGED <<current_positions, avg_entry_prices, realized_pnl,
                            max_order_size, position_limits>>]_vars

\* A call that turned away an order small enough, for the limit of a symbol whose
\* position is not 0, where the same quantity on the other side is admitted.
C17_Witness ==
    /\ lastMsg.kind = "validate_order"
    /\ ~lastMsg.result
    /\ ~TooLarge(lastMsg.order)
    /\ PositionOf(lastMsg.order.symbol) # 0
    /\ validate_order(RiskManager,
                      [lastMsg.order EXCEPT !.side = IF @ = "Buy" THEN "Sell" ELSE "Buy"])

----------------------------------------------------------------------------
(* C19..C20: the average entry price.                                      *)

\* The last call was a record_transaction that got past its quantity check.
LastWasTransaction ==
    lastMsg.kind = "record_transaction" /\ lastMsg.order.quantity > 0

AvgOf(s) == avg_entry_prices[s]

\* a <= b for two fractions with positive denominators.
FracLe(a, b) == a[1] * b[2] <= b[1] * a[2]

\* C19: opening from flat.  After record_transaction has been applied to a symbol
\* whose position was 0, never traded or back to flat, the average entry price
\* of the symbol is the price of that transaction.
C19_OpeningFromFlat ==
    (LastWasTransaction /\ lastMsg.old_position = 0)
        => AvgOf(lastMsg.order.symbol) = <<lastMsg.order.price, 1>>

\* The last transaction added to a position that was not 0, in its direction.
IncreasedSameDirection ==
    /\ LastWasTransaction
    /\ \/ lastMsg.old_position > 0 /\ lastMsg.order.side = "Buy"
       \/ lastMsg.old_position < 0 /\ lastMsg.order.side = "Sell"

\* C20: increase in the same direction.  After record_transaction with price px
\* and quantity q has increased a position old # 0 in its own direction, the
\* average entry price is (avg * |old| + px * q) / (|old| + q), which lies between
\* the old average and px.
C20_WeightedAverage ==
    IncreasedSameDirection
        => LET old == Abs(lastMsg.old_position)
               avg == lastMsg.old_avg
               px  == lastMsg.order.price
               q   == lastMsg.order.quantity
               new == AvgOf(lastMsg.order.symbol)
           IN  /\ new = Frac(avg[1] * old + px * q * avg[2], avg[2] * (old + q))
               /\ \/ FracLe(avg, new) /\ FracLe(new, <<px, 1>>)
                  \/ FracLe(<<px, 1>>, new) /\ FracLe(new, avg)

----------------------------------------------------------------------------
(* The order loop of main.rs in front of the engine: an order is validated *)
(* when it is made and sent if it passes; the engine receives it later.    *)

MaxQueued == 4       \* orders the order loop makes, and messages it sends, in one behaviour

NewOrderMsg(order) ==
    [order |-> order, order_id |-> order.id, cancelled |-> FALSE, kind |-> "NewOrder"]

\* One round of the order loop: an AAPL limit order under the next id, sent only
\* if validate_order admits it.
SubmitOrder(price, quantity, side) ==
    /\ next_id < MaxQueued
    /\ Len(message_rx) + processed < MaxQueued
    /\ price > 0
    /\ quantity > 0
    /\ next_id' = next_id + 1
    /\ message_rx' =
          IF validate_order(RiskManager, Order(next_id, "AAPL", price, quantity, "Limit", side))
          THEN Append(message_rx,
                      NewOrderMsg(Order(next_id, "AAPL", price, quantity, "Limit", side)))
          ELSE message_rx
    /\ UNCHANGED <<bids, asks, order_index, current_positions, avg_entry_prices,
                   realized_pnl, max_order_size, position_limits, insertions,
                   processed, lastMsg, lastFills, fillSum, senders, run_pc, adding, sent,
                   pc, local, locks, ledger>>

\* The delayed task of the order loop: the cancellation of an order it has sent.
SubmitCancel(order_id) ==
    /\ Len(message_rx) + processed < MaxQueued
    /\ order_id < next_id
    /\ message_rx' = Append(message_rx,
                            [order |-> NoOrder,
                             order_id |-> order_id,
                             cancelled |-> FALSE,
                             kind |-> "CancelOrder"])
    /\ UNCHANGED <<bids, asks, order_index, current_positions, avg_entry_prices,
                   realized_pnl, max_order_size, position_limits, insertions,
                   processed, lastMsg, lastFills, fillSum, next_id,
                   senders, run_pc, adding, sent, pc, local, locks, ledger>>

\* A faulty variant of recv: the newest message is taken first.
recv_newest(queue) ==
    [msg |-> queue[Len(queue)], rest |-> SubSeq(queue, 1, Len(queue) - 1)]

\* self.message_rx.recv() on a channel that holds a message: the oldest one.
recv(queue) == [msg |-> Head(queue), rest |-> Tail(queue)]

\* What run does with a message: the engine's state after process_order or
\* process_cancellation, and the message with the outcome of a cancellation.
Dispatch(msg) ==
    IF msg.kind = "NewOrder"
    THEN [st |-> process_order(EngineState, msg.order), msg |-> msg]
    ELSE [st |-> process_cancellation(EngineState, msg.order_id),
          msg |-> [msg EXCEPT !.cancelled = cancel_order(BookState, msg.order_id).cancelled]]

\* One round of run's loop: the message recv hands over is processed to its end.
Receive ==
    /\ run_pc = "recv"
    /\ message_rx # <<>>
    /\ message_rx' = recv(message_rx).rest
    /\ \E done \in {Dispatch(recv(message_rx).msg)} : Delivered(done.st, done.msg, "AAPL")
    /\ UNCHANGED <<next_id, ledger>>

NextQueued ==
    \/ \E price \in Prices, quantity \in Quantities, side \in Sides :
            SubmitOrder(price, quantity, side)
    \/ \E order_id \in 0..MaxQueued : SubmitCancel(order_id)
    \/ Receive

SpecQueued == Init /\ [][NextQueued]_vars

\* C18: position limit.  With producers that send an order only if
\* validate_order admitted it when it was made, the position of every symbol
\* with a limit stays within the limit: |position| <= limit in every state.
C18_PositionLimit ==
    \A s \in DOMAIN position_limits : Abs(PositionOf(s)) <= position_limits[s]

----------------------------------------------------------------------------
(* C21..C24: realized P&L and the average entry price when a position is   *)
(* reduced, reversed or closed, and the quantity check.                    *)

\* The symbol, the position and the realized P&L the last transaction left.
TxSymbol == lastMsg.order.symbol
TxPosition == PositionOf(TxSymbol)
RealizedOf(s) == IF s \in DOMAIN realized_pnl THEN realized_pnl[s] ELSE 0

\* (px - avg) * qty for a long position and (avg - px) * qty for a short one.
PnlGain(avg, px, qty, long) ==
    Frac((IF long THEN px * avg[2] - avg[1] ELSE avg[1] - px * avg[2]) * qty, avg[2])

\* The last transaction raised the realized P&L of its symbol by the gain of
\* qty units of the position it found.
RealizedRoseBy(qty) ==
    Frac(RealizedOf(TxSymbol) - lastMsg.old_realized, 1)
        = PnlGain(lastMsg.old_avg, lastMsg.order.price, qty, lastMsg.old_position > 0)

\* The last transaction took the other side of a position that was not 0.
TookOtherSide ==
    /\ LastWasTransaction
    /\ \/ lastMsg.old_position > 0 /\ lastMsg.order.side = "Sell"
       \/ lastMsg.old_position < 0 /\ lastMsg.order.side = "Buy"

PartlyReduced == TookOtherSide /\ lastMsg.order.quantity < Abs(lastMsg.old_position)
Reversed      == TookOtherSide /\ lastMsg.order.quantity > Abs(lastMsg.old_position)
FullyClosed   == TookOtherSide /\ lastMsg.order.quantity = Abs(lastMsg.old_position)

\* C21: partial reduction.  After record_transaction has reduced a position that
\* was not 0 without closing or reversing it, the realized P&L of the symbol has
\* risen by (px - avg) * closed for a long and (avg - px) * closed for a short,
\* closed = |old| - |new|, and the average entry price is the one it was.
C21_PartialReduction ==
    PartlyReduced
        => /\ RealizedRoseBy(Abs(lastMsg.old_position) - Abs(TxPosition))
           /\ AvgOf(TxSymbol) = lastMsg.old_avg

\* C22: reversal.  After record_transaction has taken a position from long to
\* short or from short to long, the realized P&L of the symbol has risen by
\* (px - avg) * |old| for a long and (avg - px) * |old| for a short, and the
\* average entry price is the price px of the transaction.
C22_Reversal ==
    Reversed
        => /\ RealizedRoseBy(Abs(lastMsg.old_position))
           /\ AvgOf(TxSymbol) = <<lastMsg.order.price, 1>>

\* C23: full close.  After record_transaction has brought a position that was
\* not 0 to exactly 0, the realized P&L of the symbol has risen by
\* (px - avg) * |old| for a long and (avg - px) * |old| for a short, and the
\* average entry price is 0.
C23_FullClose ==
    FullyClosed
        => /\ RealizedRoseBy(Abs(lastMsg.old_position))
           /\ AvgOf(TxSymbol) = <<0, 1>>

\* C24: a quantity that is not positive.  In every risk state, record_transaction
\* with a quantity <= 0 returns the state it was given: the positions, the
\* average entry prices and the realized P&L of every symbol are the same and
\* no symbol has gained an entry.
C24_NonPositiveQuantity ==
    \A symbol \in Symbols, price \in Prices, quantity \in Quantities, side \in Sides :
        quantity <= 0
            => record_transaction(RiskState, symbol, price, quantity, side) = RiskState

\* A call with a quantity <= 0 for a symbol never traded, made when the other
\* symbol has a position.
C24_Witness ==
    /\ lastMsg.kind = "record_transaction"
    /\ lastMsg.order.quantity <= 0
    /\ lastMsg.order.symbol \notin DOMAIN current_positions
    /\ \E s \in DOMAIN current_positions : current_positions[s] # 0

----------------------------------------------------------------------------
(* C25: malformed orders.                                                  *)

\* An order with a quantity that is not positive, or a limit order with a price
\* that is not positive.
Malformed(order) ==
    \/ order.quantity <= 0
    \/ order.order_type = "Limit" /\ order.price <= 0

\* The step in which the engine processes NewOrder for a malformed order.
MalformedOrderStep ==
    /\ processed' = processed + 1
    /\ lastMsg'.kind = "NewOrder"
    /\ Malformed(lastMsg'.order)

\* C25: malformed orders change nothing.  When the engine processes a NewOrder
\* whose quantity is not positive (Limit or Market), or a Limit order whose price
\* is not positive, the ladders with the quantities of all resting orders, the
\* order index and the risk state are after the step what they were before it.
C25_MalformedNoChange ==
    [][MalformedOrderStep
          => UNCHANGED <<bids, asks, order_index,
                         current_positions, avg_entry_prices, realized_pnl>>]_vars

----------------------------------------------------------------------------
(* C26: one risk update per fill.                                          *)

\* The risk state after one record_transaction per fill, in the order of the
\* fills, each with the side of the incoming order and the price and the
\* quantity of the fill.
RECURSIVE OneUpdatePerFill(_, _)
OneUpdatePerFill(rk, fills) ==
    IF fills = <<>> THEN rk
    ELSE OneUpdatePerFill(
             record_transaction(rk, Head(fills).symbol, Head(fills).price,
                                Head(fills).quantity, Head(fills).taker_side),
             Tail(fills))

\* The step in which the engine processes NewOrder for a well-formed order.
OrderStep ==
    /\ processed' = processed + 1
    /\ lastMsg'.kind = "NewOrder"
    /\ ~Malformed(lastMsg'.order)

\* C26: risk accounting once per fill.  When the engine has processed an
\* incoming order (Limit or Market, filled in part or completely), the risk state
\* is the one that one update per fill produced, each with the side of the
\* incoming order and the price and quantity of that fill, leaves; it is the
\* state before the order when the order produced no fill.
C26_OneRiskUpdatePerFill ==
    [][OrderStep => RiskState' = OneUpdatePerFill(RiskState, lastFills')]_vars

----------------------------------------------------------------------------
(* C27: the epsilon boundary.                                              *)

\* The design's epsilon is 10^-3 in the quantity scale.  The source compares
\* quantities with 0.0 only and holds no constant in the quantity scale, so the
\* unit of the model's quantities is free: here it is read as 10^-3, and a
\* quantity is within epsilon when it is at most one unit.
WithinEpsilon(quantity) == quantity <= 1

\* No resting order carries the insertion stamp seq.
GoneFromBook(seq) == \A pl \in Places : RestingAt(pl).seq # seq

\* What the resting order of a fill was left with.
RestingAfter(f) == f.after[f.price][f.idx].quantity

\* C27: epsilon boundary.  After the engine has processed a well-formed order,
\* every resting order that one of its fills left with a remaining quantity
\* <= epsilon (0 < remaining <= epsilon included) is gone from its level, and
\* an incoming Limit order whose remaining quantity after matching is <= epsilon
\* does not rest.
C27_EpsilonBoundary ==
    (LastWasNewOrder /\ ~Malformed(LastOrder))
        => /\ \A i \in 1..Len(lastFills) :
                 WithinEpsilon(RestingAfter(lastFills[i]))
                     => GoneFromBook(lastFills[i].maker_seq)
           /\ (/\ LastOrder.order_type = "Limit"
               /\ WithinEpsilon(LastOrder.quantity - FilledQty(lastFills)))
                  => ~IsResting(LastOrder.id)

----------------------------------------------------------------------------
(* The channel between producers and run: every producer holds a sender,   *)
(* sends whatever it likes while it holds it, and may drop it; recv hands  *)
(* out the messages in the order the channel took them and returns None    *)
(* once the channel is empty and no sender is left.                        *)

MaxSent == 3         \* messages sent in one behaviour

SentTotal == sent["order_loop"] + sent["market_data"]

\* What a producer may put into a message: any limit or market order for AAPL,
\* well-formed or not, and the cancellation of any id.
ChannelOrders(id) ==
    {Order(id, "AAPL", price, quantity, "Limit", side) :
        price \in 0..1, quantity \in 0..1, side \in Sides}
    \cup
    {Order(id, "AAPL", 1, 1, "Market", side) : side \in Sides}

\* The history stamps of a message: its producer, its number among the messages
\* of that producer and its number among all messages the channel took.
Stamped(msg, producer) ==
    [order |-> msg.order,
     order_id |-> msg.order_id,
     cancelled |-> FALSE,
     producer |-> producer,
     kind |-> msg.kind,
     producer_seq |-> sent[producer],
     arrival |-> SentTotal]

\* tx.send(msg) by a producer that holds a sender: the channel is unbounded and
\* takes the message at its end.
Send(producer, msg) ==
    /\ producer \in senders
    /\ SentTotal < MaxSent
    /\ message_rx' = Append(message_rx, Stamped(msg, producer))
    /\ sent' = [sent EXCEPT ![producer] = @ + 1]
    /\ UNCHANGED <<bids, asks, order_index, current_positions, avg_entry_prices,
                   realized_pnl, max_order_size, position_limits, insertions,
                   processed, lastMsg, lastFills, fillSum, senders, run_pc, adding,
                   pc, local, locks, ledger>>

\* A producer sends an order it has made under the next id of ORDER_ID_COUNTER.
SendNewOrder(producer, order) ==
    /\ Send(producer, NewOrderMsg(order))
    /\ next_id' = next_id + 1

SendCancelOrder(producer, order_id) ==
    /\ Send(producer, [order |-> NoOrder,
                       order_id |-> order_id,
                       cancelled |-> FALSE,
                       kind |-> "CancelOrder"])
    /\ UNCHANGED next_id

\* A producer ends and its sender is dropped.
DropSender(producer) ==
    /\ producer \in senders
    /\ senders' = senders \ {producer}
    /\ UNCHANGED <<bids, asks, order_index, current_positions, avg_entry_prices,
                   realized_pnl, max_order_size, position_limits, message_rx, insertions,
                   processed, lastMsg, lastFills, fillSum, run_pc, adding, next_id, sent,
                   pc, local, locks, ledger>>

\* A faulty variant of RecvNone: None as soon as no sender is left.
RecvNoneOnceClosed(queue, holders) == holders = {}

\* recv returns None: the channel holds no message and no sender is left.
RecvNone(queue, holders) == queue = <<>> /\ holders = {}

\* `while let Some(msg) = ...` gets None: the loop ends and run returns.
RunReturns ==
    /\ run_pc = "recv"
    /\ RecvNone(message_rx, senders)
    /\ run_pc' = "returned"
    /\ UNCHANGED <<bids, asks, order_index, current_positions, avg_entry_prices,
                   realized_pnl, max_order_size, position_limits, message_rx, insertions,
                   processed, lastMsg, lastFills, fillSum, senders, adding, next_id, sent,
                   pc, local, locks, ledger>>

NextChannel ==
    \/ \E producer \in Producers, order \in ChannelOrders(next_id) :
            SendNewOrder(producer, order)
    \/ \E producer \in Producers : SendCancelOrder(producer, 0)
    \/ \E producer \in Producers : DropSender(producer)
    \/ Receive
    \/ RunReturns

SpecChannel == Init /\ [][NextChannel]_vars

MaxSentFair == 2     \* messages sent in one behaviour of the fair specification

NextChannelFair ==
    \/ \E producer \in Producers, order \in ChannelOrders(next_id) :
            SentTotal < MaxSentFair /\ SendNewOrder(producer, order)
    \/ \E producer \in Producers : SentTotal < MaxSentFair /\ SendCancelOrder(producer, 0)
    \/ \E producer \in Producers : DropSender(producer)
    \/ Receive
    \/ RunReturns

\* The engine's task is scheduled again and again: a round of the loop that can
\* be made is made in the end, and so is the return.  Producers are under no
\* such condition: they may send, stop or drop their sender at any time.
SpecChannelFair ==
    Init /\ [][NextChannelFair]_vars /\ WF_vars(Receive) /\ WF_vars(RunReturns)

----------------------------------------------------------------------------
(* C28: the end of run.                                                    *)

\* C28: run returns if and only if the channel is closed.  Whenever run has
\* returned, every sender has been dropped, the channel is empty and every
\* message ever sent has been processed, whatever the messages held; and once
\* every sender has been dropped, run does return.
C28_RunTermination ==
    /\ [](run_pc = "returned"
             => senders = {} /\ message_rx = <<>> /\ processed = SentTotal)
    /\ (senders = {}) ~> (run_pc = "returned")

\* run has returned after at least two messages, the last of them the
\* cancellation of an id that was not resting.
C28_Witness ==
    /\ run_pc = "returned"
    /\ processed >= 2
    /\ lastMsg.kind = "CancelOrder"
    /\ ~lastMsg.cancelled

----------------------------------------------------------------------------
(* C29: serial processing in arrival order.                                *)

\* The step changes the book, the risk state or the count of processed messages.
EngineEffect ==
    <<bids, asks, order_index, current_positions, avg_entry_prices, realized_pnl,
      processed>>' #
    <<bids, asks, order_index, current_positions, avg_entry_prices, realized_pnl,
      processed>>

\* C29: serial, arrival-ordered processing.  With two producers sending
\* concurrently, every step that has an effect on the book or the risk state is
\* the processing of exactly one message: the message is the one that arrived
\* n-th when n messages have been processed before it, it alone leaves the
\* channel, and no message the same producer sent before it is still waiting.
C29_ArrivalOrder ==
    [][EngineEffect
          => /\ message_rx # <<>>
             /\ processed' = processed + 1
             /\ lastMsg' # lastMsg
             /\ lastMsg'.arrival = processed
             /\ Len(message_rx') = Len(message_rx) - 1
             /\ \A i \in 1..Len(message_rx') :
                   /\ message_rx'[i].arrival > lastMsg'.arrival
                   /\ message_rx'[i].producer = lastMsg'.producer
                         => message_rx'[i].producer_seq > lastMsg'.producer_seq]_vars

\* The second message the channel took, the first of its producer, has been
\* processed while another message was waiting.
C29_Witness ==
    /\ processed >= 2
    /\ lastMsg.kind # "none"
    /\ lastMsg.arrival = 1
    /\ lastMsg.producer_seq = 0
    /\ message_rx # <<>>

----------------------------------------------------------------------------
(* Readers of the book.  The tasks of main.rs that read the book run on     *)
(* other threads than the engine: what they can observe is every state     *)
(* between two writes of the thread that changes the book.  add_order      *)
(* writes order_index first and the ladder afterwards, under another lock; *)
(* cancel_order changes its level and drops it when empty under one guard. *)

\* The valid limit orders a caller hands to add_order under a new id.
NewLimitOrders ==
    {Order(next_id, symbol, price, 1, "Limit", side) :
        symbol \in Symbols, price \in 1..MaxPrice, side \in Sides}

\* What the steps of the writing thread leave alone.
BookWrite ==
    /\ processed < MaxMsgs
    /\ UNCHANGED <<current_positions, avg_entry_prices, realized_pnl, max_order_size,
                   position_limits, message_rx, senders, run_pc, sent, lastFills, fillSum,
                   pc, local, locks, ledger>>

\* add_order up to self.order_index.insert(..): the order has passed the two
\* checks and is in the index, not yet on its level.
AddOrderIndexed(order) ==
    /\ BookWrite
    /\ adding = <<>>
    /\ AddOrderAccepts(order)
    /\ order_index' = add_order(BookState, order).order_index
    /\ adding' = <<order>>
    /\ next_id' = next_id + 1
    /\ UNCHANGED <<bids, asks, insertions, processed, lastMsg>>

\* The rest of add_order: the order is pushed onto its level.
AddOrderPushed ==
    /\ BookWrite
    /\ adding # <<>>
    /\ bids' = add_order(BookState, adding[1]).bids
    /\ asks' = add_order(BookState, adding[1]).asks
    /\ insertions' = add_order(BookState, adding[1]).insertions
    /\ adding' = <<>>
    /\ processed' = processed + 1
    /\ lastMsg' = [order |-> NoOrder,
                   order_id |-> adding[1].id,
                   cancelled |-> FALSE,
                   kind |-> "add_order",
                   accepted |-> TRUE]
    /\ UNCHANGED <<order_index, next_id>>

\* cancel_order, called by the same thread when no add_order is under way.
CancelBetweenAdds(order_id) ==
    /\ adding = <<>>
    /\ BookCancel(order_id)

NextReaders ==
    \/ \E order \in NewLimitOrders : AddOrderIndexed(order)
    \/ AddOrderPushed
    \/ \E order_id \in 0..next_id : CancelBetweenAdds(order_id)

SpecReaders == Init /\ [][NextReaders]_vars

----------------------------------------------------------------------------
(* C30: consistent reads.                                                  *)

\* C30: a reader that runs concurrently with add_order and cancel_order never
\* finds in order_index an id whose order is absent from the ladder at the
\* recorded (symbol, price, side), and never finds a price level without orders:
\* both hold in every state a reader can observe.
C30_ConsistentReads ==
    /\ \A id \in DOMAIN order_index :
          \E pl \in Places :
              /\ RestingAt(pl).id = id
              /\ <<pl[1], pl[2], pl[3]>> =
                     <<order_index[id].side, order_index[id].symbol, order_index[id].price>>
    /\ NoEmptyLevel(bids)
    /\ NoEmptyLevel(asks)

----------------------------------------------------------------------------
(* The risk manager called from several threads.  Every call is cut at the *)
(* points where it takes or gives back a shard lock (a DashMap guard); the *)
(* Mutex inside an AtomicDecimal is taken and given back within one        *)
(* get/add and never held across another lock, so get and add are atomic.  *)

MaxCalls == 3        \* calls started in one behaviour

Lock(map, symbol) == <<map, symbol>>

\* A read guard is given when no writer holds the shard, a write guard when
\* nobody holds it.
CanRead(l)  == locks[l].writer = "none"
CanWrite(l) == locks[l].writer = "none" /\ locks[l].readers = {}

ReadLocked(lk, l, t)  == [lk EXCEPT ![l].readers = @ \cup {t}]
WriteLocked(lk, l, t) == [lk EXCEPT ![l].writer = t]

\* A faulty variant of DropGuards: a returning call keeps its guards.
KeepGuards(lk, t) == lk

\* The guards of a thread go out of scope.
DropGuards(lk, t) ==
    [l \in Locks |-> [writer  |-> IF lk[l].writer = t THEN "none" ELSE lk[l].writer,
                      readers |-> lk[l].readers \ {t}]]

\* A faulty variant of HoldPositionEntry: the guard is given back after the add.
DropPositionEntry(lk, t) == DropGuards(lk, t)

\* position_entry is a local of record_transaction: its guard lives on after
\* position_entry.add(..), to the end of the function.
HoldPositionEntry(lk, t) == lk

\* What a step of a thread inside the risk manager leaves alone.
RiskThread ==
    UNCHANGED <<bids, asks, order_index, insertions, next_id, message_rx, max_order_size,
                position_limits, lastFills, fillSum, senders, run_pc, adding, sent,
                ledger, lastMsg>>

\* An idle thread enters a call.
Enter(t, label, frame) ==
    /\ pc[t] = "idle"
    /\ processed < MaxCalls
    /\ processed' = processed + 1
    /\ pc' = [pc EXCEPT ![t] = label]
    /\ local' = [local EXCEPT ![t] = frame]
    /\ RiskThread
    /\ UNCHANGED <<current_positions, avg_entry_prices, realized_pnl, locks>>

\* A thread moves on inside its call.
Goto(t, from, to) ==
    /\ pc[t] = from
    /\ pc' = [pc EXCEPT ![t] = to]
    /\ RiskThread
    /\ UNCHANGED processed

(* record_transaction *)

RtCall(t, symbol, price, quantity, side) ==
    Enter(t, IF QuantityRejected(quantity) THEN "idle" ELSE "rt_entry",
          [symbol |-> symbol, price |-> price, quantity |-> quantity, side |-> side,
           call |-> "record_transaction"])

\* self.current_positions.entry(symbol).or_insert_with(..): the write guard of
\* the symbol's shard, and a position of 0 for a new symbol.
RtEntry(t) ==
    /\ Goto(t, "rt_entry", "rt_add")
    /\ CanWrite(Lock("current_positions", local[t].symbol))
    /\ locks' = WriteLocked(locks, Lock("current_positions", local[t].symbol), t)
    /\ current_positions' = Put(current_positions, local[t].symbol,
                                PositionOf(local[t].symbol))
    /\ UNCHANGED <<avg_entry_prices, realized_pnl, local>>

\* position_entry.add(signed_quantity)
RtAdd(t) ==
    /\ Goto(t, "rt_add", "rt_avg")
    /\ current_positions' =
          [current_positions EXCEPT ![local[t].symbol] =
              @ + (IF local[t].side = "Buy" THEN local[t].quantity
                   ELSE 0 - local[t].quantity)]
    /\ locks' = HoldPositionEntry(locks, t)
    /\ UNCHANGED <<avg_entry_prices, realized_pnl, local>>

\* self.avg_entry_prices.entry(symbol).and_modify(..).or_insert(price)
RtAvg(t) ==
    /\ Goto(t, "rt_avg", "rt_pnl")
    /\ CanWrite(Lock("avg_entry_prices", local[t].symbol))
    /\ avg_entry_prices' =
          Put(avg_entry_prices, local[t].symbol,
              IF local[t].symbol \in DOMAIN avg_entry_prices
              THEN IF PositionOf(local[t].symbol) # 0
                   THEN ModifiedAvg(avg_entry_prices[local[t].symbol],
                                    PositionOf(local[t].symbol),
                                    local[t].price, local[t].quantity)
                   ELSE avg_entry_prices[local[t].symbol]
              ELSE <<local[t].price, 1>>)
    /\ UNCHANGED <<current_positions, realized_pnl, local, locks>>

\* self.realized_pnl.entry(symbol).or_insert_with(..)
RtPnl(t) ==
    /\ Goto(t, "rt_pnl", "rt_return")
    /\ CanWrite(Lock("realized_pnl", local[t].symbol))
    /\ realized_pnl' = Put(realized_pnl, local[t].symbol,
                           IF local[t].symbol \in DOMAIN realized_pnl
                           THEN realized_pnl[local[t].symbol] ELSE 0)
    /\ UNCHANGED <<current_positions, avg_entry_prices, local, locks>>

\* The end of the function: position_entry is dropped.
RtReturn(t) ==
    /\ Goto(t, "rt_return", "idle")
    /\ locks' = DropGuards(locks, t)
    /\ UNCHANGED <<current_positions, avg_entry_prices, realized_pnl, local>>

(* report_positions and analyze_portfolio_risk *)

\* The order in which current_positions.iter() comes to the shards.
ShardOrder == <<"AAPL", "MSFT">>

\* Both loops are `for entry in self.current_positions.iter()`.
ReaderCall(t, call) ==
    Enter(t, "rd_next", [symbol |-> "AAPL", avg_price |-> <<0, 1>>, call |-> call,
                         rest |-> ShardOrder, position |-> 0, realized |-> 0,
                         position_limit |-> 0, reported |-> 0])

\* The iterator is exhausted: the call returns.
ReaderReturn(t) ==
    /\ Goto(t, "rd_next", "idle")
    /\ local[t].rest = <<>>
    /\ UNCHANGED <<current_positions, avg_entry_prices, realized_pnl, local, locks>>

\* The iterator passes a shard that holds no entry.
ReaderSkip(t) ==
    /\ Goto(t, "rd_next", "rd_next")
    /\ local[t].rest # <<>>
    /\ Head(local[t].rest) \notin DOMAIN current_positions
    /\ CanRead(Lock("current_positions", Head(local[t].rest)))
    /\ local' = [local EXCEPT ![t].rest = Tail(@)]
    /\ UNCHANGED <<current_positions, avg_entry_prices, realized_pnl, locks>>

\* The iterator yields an entry, which holds the read guard of its shard for
\* the body of the loop: entry.value().get().
ReaderEntry(t) ==
    /\ Goto(t, "rd_next", "rd_realized")
    /\ local[t].rest # <<>>
    /\ Head(local[t].rest) \in DOMAIN current_positions
    /\ CanRead(Lock("current_positions", Head(local[t].rest)))
    /\ locks' = ReadLocked(locks, Lock("current_positions", Head(local[t].rest)), t)
    /\ local' = [local EXCEPT ![t].symbol = Head(local[t].rest),
                              ![t].rest = Tail(@),
                              ![t].position = current_positions[Head(local[t].rest)]]
    /\ UNCHANGED <<current_positions, avg_entry_prices, realized_pnl>>

\* self.realized_pnl.get(symbol).map(|v| v.get()).unwrap_or(Decimal::ZERO)
ReaderRealized(t) ==
    /\ Goto(t, "rd_realized",
            IF local[t].call = "report_positions" THEN "rp_avg" ELSE "ap_limit")
    /\ CanRead(Lock("realized_pnl", local[t].symbol))
    /\ local' = [local EXCEPT ![t].realized =
                    IF local[t].symbol \in DOMAIN realized_pnl
                    THEN realized_pnl[local[t].symbol] ELSE 0]
    /\ UNCHANGED <<current_positions, avg_entry_prices, realized_pnl, locks>>

\* self.avg_entry_prices.get(symbol).map(|r| *r).unwrap_or(Decimal::ZERO)
ReportAvg(t) ==
    /\ Goto(t, "rp_avg", "rp_log")
    /\ CanRead(Lock("avg_entry_prices", local[t].symbol))
    /\ local' = [local EXCEPT ![t].avg_price =
                    IF local[t].symbol \in DOMAIN avg_entry_prices
                    THEN avg_entry_prices[local[t].symbol] ELSE <<0, 1>>]
    /\ UNCHANGED <<current_positions, avg_entry_prices, realized_pnl, locks>>

\* The "Position Report" line, and the end of the loop body: entry is dropped.
ReportLog(t) ==
    /\ Goto(t, "rp_log", "rd_next")
    /\ local' = [local EXCEPT ![t].reported = @ + 1]
    /\ locks' = DropGuards(locks, t)
    /\ UNCHANGED <<current_positions, avg_entry_prices, realized_pnl>>

\* self.position_limits.get(&symbol), risk_metrics.insert(..), and the end of
\* the loop body.
AnalyzeInsert(t) ==
    /\ Goto(t, "ap_limit", "rd_next")
    /\ local' = [local EXCEPT ![t].position_limit =
                    IF local[t].symbol \in DOMAIN position_limits
                    THEN position_limits[local[t].symbol] ELSE 0,
                              ![t].reported = @ + 1]
    /\ locks' = DropGuards(locks, t)
    /\ UNCHANGED <<current_positions, avg_entry_prices, realized_pnl>>

(* validate_order *)

\* The size check, before any map is read.
VoCall(t, order) ==
    Enter(t, IF order.quantity > max_order_size THEN "idle" ELSE "vo_position",
          [symbol |-> order.symbol, order |-> order, call |-> "validate_order",
           result |-> ~(order.quantity > max_order_size), position |-> 0])

\* self.current_positions.get(symbol).map(|p| p.get()): the guard is a temporary.
VoPosition(t) ==
    /\ Goto(t, "vo_position", "vo_limit")
    /\ CanRead(Lock("current_positions", local[t].symbol))
    /\ local' = [local EXCEPT ![t].position = PositionOf(local[t].symbol)]
    /\ UNCHANGED <<current_positions, avg_entry_prices, realized_pnl, locks>>

\* The limit check on the position read before.
VoLimit(t) ==
    /\ Goto(t, "vo_limit", "idle")
    /\ local' = [local EXCEPT ![t].result =
                    ~(/\ local[t].symbol \in DOMAIN position_limits
                      /\ Abs(local[t].position + OrderDelta(local[t].order))
                            > position_limits[local[t].symbol])]
    /\ UNCHANGED <<current_positions, avg_entry_prices, realized_pnl, locks>>

\* The orders validate_order is called with.
ThreadOrders ==
    {Order(0, symbol, 1, 1, "Limit", side) : symbol \in Symbols, side \in Sides}

NextThreads ==
    \/ \E t \in Threads, symbol \in Symbols, price \in 1..MaxPrice,
          quantity \in BookQuantities, side \in Sides :
            RtCall(t, symbol, price, quantity, side)
    \/ \E t \in Threads : RtEntry(t)
    \/ \E t \in Threads : RtAdd(t)
    \/ \E t \in Threads : RtAvg(t)
    \/ \E t \in Threads : RtPnl(t)
    \/ \E t \in Threads : RtReturn(t)
    \/ \E t \in Threads, call \in {"report_positions", "analyze_portfolio_risk"} :
            ReaderCall(t, call)
    \/ \E t \in Threads : ReaderReturn(t)
    \/ \E t \in Threads : ReaderSkip(t)
    \/ \E t \in Threads : ReaderEntry(t)
    \/ \E t \in Threads : ReaderRealized(t)
    \/ \E t \in Threads : ReportAvg(t)
    \/ \E t \in Threads : ReportLog(t)
    \/ \E t \in Threads : AnalyzeInsert(t)
    \/ \E t \in Threads, order \in ThreadOrders : VoCall(t, order)
    \/ \E t \in Threads : VoPosition(t)
    \/ \E t \in Threads : VoLimit(t)

SpecThreads == Init /\ [][NextThreads]_vars

----------------------------------------------------------------------------
(* C31: no torn risk state.                                                *)

\* The thread is inside the loop body of report_positions or
\* analyze_portfolio_risk, after it has read the position of its symbol.
Reading(t) == pc[t] \in {"rd_realized", "rp_avg", "rp_log", "ap_limit"}

\* The thread is inside record_transaction for symbol s, between the change of
\* the position and its return.
MidTransaction(w, s) ==
    /\ pc[w] \in {"rt_avg", "rt_pnl", "rt_return"}
    /\ local[w].symbol = s

AvgOrZero(s) == IF s \in DOMAIN avg_entry_prices THEN avg_entry_prices[s] ELSE <<0, 1>>

\* C31: no torn risk state.  While a reader (report_positions,
\* analyze_portfolio_risk) is in the loop body for a symbol, no
\* record_transaction on that symbol is between its writes, and what the reader
\* has read so far (the position, then the realized P&L, then the average entry
\* price) is what the maps hold: the triple it reports is the complete triple
\* before or after a transaction, never a new position with an old average.
C31_NoTornRead ==
    \A t \in Threads :
        Reading(t)
            => /\ \A w \in Threads : ~MidTransaction(w, local[t].symbol)
               /\ local[t].position = PositionOf(local[t].symbol)
               /\ pc[t] \in {"rp_avg", "rp_log", "ap_limit"}
                     => local[t].realized = RealizedOf(local[t].symbol)
               /\ pc[t] = "rp_log"
                     => local[t].avg_price = AvgOrZero(local[t].symbol)

\* A report of a position that is not 0 is about to be logged while another
\* thread waits in record_transaction for the shard of the same symbol.
C31_Witness ==
    \E t \in Threads, w \in Threads :
        /\ pc[t] = "rp_log"
        /\ local[t].position # 0
        /\ pc[w] = "rt_entry"
        /\ local[w].symbol = local[t].symbol

----------------------------------------------------------------------------
(* C35: deadlock freedom of the risk manager.                              *)

\* The threads of the risk manager keep running: a thread that can take its
\* next step inside a call takes it in the end, and a lock that is free again
\* and again is given to a thread that keeps asking for it.
InsideCall(t) ==
    \/ RtEntry(t) \/ RtAdd(t) \/ RtAvg(t) \/ RtPnl(t) \/ RtReturn(t)
    \/ ReaderReturn(t) \/ ReaderSkip(t) \/ ReaderEntry(t) \/ ReaderRealized(t)
    \/ ReportAvg(t) \/ ReportLog(t) \/ AnalyzeInsert(t)
    \/ VoPosition(t) \/ VoLimit(t)

SpecThreadsFair == SpecThreads /\ \A t \in Threads : SF_vars(InsideCall(t))

\* The lock a thread asks for at the statement it is at, as a set: empty when
\* the statement takes no lock.
Wanted(t) ==
    IF pc[t] \in {"rt_entry", "vo_position"}
        THEN {Lock("current_positions", local[t].symbol)}
    ELSE IF pc[t] = "rd_next" /\ local[t].rest # <<>>
        THEN {Lock("current_positions", Head(local[t].rest))}
    ELSE IF pc[t] \in {"rt_avg", "rp_avg"} THEN {Lock("avg_entry_prices", local[t].symbol)}
    ELSE IF pc[t] \in {"rt_pnl", "rd_realized"} THEN {Lock("realized_pnl", local[t].symbol)}
    ELSE {}

WantsWrite(t) == pc[t] \in {"rt_entry", "rt_avg", "rt_pnl"}

\* The thread waits: the lock it asks for is not to be had.
Blocked(t) ==
    \E l \in Wanted(t) : IF WantsWrite(t) THEN ~CanWrite(l) ELSE ~CanRead(l)

Holders(l) == locks[l].readers \cup (IF locks[l].writer = "none" THEN {} ELSE {locks[l].writer})

\* C35: deadlock freedom of the risk manager.  In every interleaving of
\* record_transaction, validate_order, report_positions and
\* analyze_portfolio_risk on the same or on different symbols, a thread that
\* waits for a lock waits for one held by a thread that is inside a call and does
\* not wait itself, and every call that has been entered returns.
C35_DeadlockFreedom ==
    /\ [](\A t \in Threads :
             Blocked(t) => \A l \in Wanted(t) :
                               \E h \in Holders(l) \ {t} : pc[h] # "idle" /\ ~Blocked(h))
    /\ \A t \in Threads : (pc[t] # "idle") ~> (pc[t] = "idle")

\* A record_transaction waits for the shard of a symbol that a reader holds.
C35_Witness ==
    \E t \in Threads, h \in Threads :
        /\ pc[t] = "rt_entry"
        /\ Blocked(t)
        /\ Reading(h)

----------------------------------------------------------------------------
(* fetch_market_data: the retry loop of the market data adapter.  A call   *)
(* is cut at its awaits: the request and the sleep.  Two tasks of main.rs  *)
(* fetch, each on its own thread.  The frame of a call counts its requests *)
(* and its sleeps.                                                         *)

TransportErrors == {"refused", "timeout"}

\* What reqwest::get(&url).await comes back with: a transport error, or a
\* response with a success status and a body that parses, one with a body that
\* does not, or one with another status.
Responses == TransportErrors \cup {"ok", "garbage", "status"}

FirstAttempts == 3

\* The call: without the API key it returns at once.
FmCall(t, api_key) ==
    Enter(t, IF api_key THEN "fm_while" ELSE "idle",
          [call |-> "fetch_market_data",
           result |-> IF api_key THEN "pending" ELSE "MissingApiKey",
           attempts |-> FirstAttempts, last_error |-> "none",
           requests |-> 0, sleeps |-> 0, failures |-> 0])

FetchStep(t, from, to, frame) ==
    /\ Goto(t, from, to)
    /\ local' = [local EXCEPT ![t] = frame]
    /\ UNCHANGED <<current_positions, avg_entry_prices, realized_pnl, locks>>

\* while attempts > 0 { match reqwest::get(&url).await { .. } }
FmRequest(t, response) ==
    /\ pc[t] = "fm_while"
    /\ local[t].attempts > 0
    /\ LET sent_one == [local[t] EXCEPT !.requests = @ + 1]
       IN  IF response \in TransportErrors
             THEN FetchStep(t, "fm_while", "fm_sleep",
                            [sent_one EXCEPT !.last_error = response, !.failures = @ + 1])
           ELSE IF response = "status"
             THEN FetchStep(t, "fm_while", "idle", [sent_one EXCEPT !.result = "ApiError"])
           ELSE IF response = "garbage"
             THEN FetchStep(t, "fm_while", "idle", [sent_one EXCEPT !.result = "decode"])
           ELSE FetchStep(t, "fm_while", "idle", [sent_one EXCEPT !.result = "Ok"])

\* tokio::time::sleep(Duration::from_secs(2)).await; then attempts -= 1
FmSleep(t) ==
    FetchStep(t, "fm_sleep", "fm_while",
              [local[t] EXCEPT !.sleeps = @ + 1, !.attempts = @ - 1])

\* Err(MarketDataError::Reqwest(last_error.unwrap()))
FmGiveUp(t) ==
    /\ pc[t] = "fm_while"
    /\ local[t].attempts = 0
    /\ FetchStep(t, "fm_while", "idle", [local[t] EXCEPT !.result = local[t].last_error])

NextFetch ==
    \/ \E t \in Threads, api_key \in BOOLEAN : FmCall(t, api_key)
    \/ \E t \in Threads, response \in Responses : FmRequest(t, response)
    \/ \E t \in Threads : FmSleep(t)
    \/ \E t \in Threads : FmGiveUp(t)

SpecFetch == Init /\ [][NextFetch]_vars

----------------------------------------------------------------------------
(* C32: three retries, two seconds apart, then the last error.             *)

Returned(t) == pc[t] = "idle" /\ local[t].call = "fetch_market_data"

\* Every request of the call failed in transport and the call has given up.
GaveUp(t) == Returned(t) /\ local[t].result \in TransportErrors

\* The requests after the first.
Retries(t) == IF local[t].requests = 0 THEN 0 ELSE local[t].requests - 1

\* C32: on persistent transport failure fetch_market_data retries the request
\* three times, sleeps two seconds before each retry and returns the last
\* transport error; it returns at the first response that is no transport
\* failure, and no call makes more than four requests.
C32_ThreeRetries ==
    \A t \in Threads :
        /\ GaveUp(t) => /\ Retries(t) = 3
                        /\ local[t].sleeps >= Retries(t)
                        /\ local[t].result = local[t].last_error
        /\ Returned(t) /\ local[t].result = "Ok" =>
               local[t].requests = local[t].failures + 1
        /\ local[t].call = "fetch_market_data" => local[t].requests <= 1 + 3

----------------------------------------------------------------------------
(* The engine with a ledger: per order id, the quantity the order was sent *)
(* with and the quantity filled against it so far, as the incoming order   *)
(* of a fill or as its resting order.                                      *)

Submitted(lg, order) ==
    [id \in DOMAIN lg \cup {order.id} |->
        IF id = order.id THEN [submitted |-> order.quantity, filled |-> 0] ELSE lg[id]]

Credit(lg, id, quantity) ==
    IF id \in DOMAIN lg THEN [lg EXCEPT ![id].filled = @ + quantity] ELSE lg

RECURSIVE Filled(_, _)
Filled(lg, fills) ==
    IF fills = <<>> THEN lg
    ELSE Filled(Credit(Credit(lg, Head(fills).taker, Head(fills).quantity),
                       Head(fills).maker, Head(fills).quantity),
                Tail(fills))

\* run receives NewOrder(order) and the ledger is kept.
LedgerOrder(symbol, price, quantity, order_type, side) ==
    /\ processed < MaxMsgs
    /\ \E order \in {Order(next_id, symbol, price, quantity, order_type, side)} :
         \E st \in {process_order(EngineState, order)} :
            /\ Delivered(st, [order |-> order,
                              order_id |-> next_id,
                              cancelled |-> FALSE,
                              kind |-> "NewOrder"], symbol)
            /\ ledger' = Filled(Submitted(ledger, order), st.fills)
    /\ next_id' = next_id + 1
    /\ UNCHANGED message_rx

NextLedger ==
    \/ \E symbol \in Symbols, price \in 1..MaxPrice, quantity \in 1..MaxQty,
          order_type \in {"Limit", "Market"}, side \in Sides :
            LedgerOrder(symbol, price, quantity, order_type, side)
    \/ \E symbol \in Symbols, order_id \in 0..MaxMsgs : CancelOrder(symbol, order_id)

SpecLedger == Init /\ [][NextLedger]_vars

----------------------------------------------------------------------------
(* C33: no over-fill.                                                      *)

\* C33: no over-fill.  After any sequence of messages whose orders have ids that
\* differ from each other, the quantity filled against an order, as the incoming
\* order and later as a resting order, is at most the quantity it was sent with.
C33_NoOverFill ==
    \A id \in DOMAIN ledger : ledger[id].filled <= ledger[id].submitted

----------------------------------------------------------------------------
(* add_order called by two threads.  order_index, bids and asks are        *)
(* DashMaps and add_order takes &self: update_from_market_data and the     *)
(* engine call it from different tasks.  A call is cut at each access to a *)
(* DashMap; the frame of a call keeps its order and whether the symbol had *)
(* a ladder on the order's side when the call began.                       *)

BookOf(side) == IF side = "Buy" THEN bids ELSE asks

\* What a step of add_order leaves alone.
BookThread ==
    UNCHANGED <<current_positions, avg_entry_prices, realized_pnl, max_order_size,
                position_limits, message_rx, senders, run_pc, adding, sent, lastFills,
                fillSum, locks, ledger, lastMsg>>

\* The orders the callers hand over, under a new id.
ThreadBookOrders ==
    {Order(next_id, symbol, price, quantity, order_type, "Buy") :
        symbol \in Symbols, price \in 1..MaxPrice, quantity \in 0..1, order_type \in OrderTypes}
    \cup
    {Order(next_id, "AAPL", 1, 1, "Limit", "Sell")}

\* The call and its two early returns.
AoCall(t, order) ==
    /\ pc[t] = "idle"
    /\ processed < MaxCalls
    /\ processed' = processed + 1
    /\ next_id' = next_id + 1
    /\ pc' = [pc EXCEPT ![t] = IF AddOrderAccepts(order) THEN "ao_index" ELSE "idle"]
    /\ local' = [local EXCEPT ![t] =
                    [order |-> order, call |-> "add_order",
                     accepted |-> AddOrderAccepts(order),
                     had_ladder |-> order.symbol \in DOMAIN BookOf(order.side)]]
    /\ BookThread
    /\ UNCHANGED <<bids, asks, order_index, insertions>>

AoStep(t, from, to) ==
    /\ pc[t] = from
    /\ pc' = [pc EXCEPT ![t] = to]
    /\ BookThread
    /\ UNCHANGED <<processed, next_id, local>>

\* self.order_index.insert(order.id, (symbol, price, side))
AoIndex(t) ==
    /\ AoStep(t, "ao_index", "ao_get_mut")
    /\ order_index' = Put(order_index, local[t].order.id,
                          [symbol |-> local[t].order.symbol, price |-> local[t].order.price,
                           side |-> local[t].order.side])
    /\ UNCHANGED <<bids, asks, insertions>>

\* Another thread holds the RefMut of the symbol's ladder on that side.
LadderGuarded(t) ==
    \E u \in Threads \ {t} :
        /\ pc[u] = "ao_push"
        /\ local[u].order.symbol = local[t].order.symbol
        /\ local[u].order.side = local[t].order.side

\* match self.bids.get_mut(&order.symbol): Some(bids) keeps the guard, None
\* goes on to insert an empty ladder.
AoGetMut(t) ==
    /\ pc[t] = "ao_get_mut"
    /\ ~LadderGuarded(t)
    /\ AoStep(t, "ao_get_mut",
              IF local[t].order.symbol \in DOMAIN BookOf(local[t].order.side)
              THEN "ao_push" ELSE "ao_insert")
    /\ UNCHANGED <<bids, asks, order_index, insertions>>

\* self.bids.insert(order.symbol.clone(), BTreeMap::new()): DashMap::insert
\* puts the new value in the place of the one that is there.
InsertNewLadder(book, symbol) == Put(book, symbol, EmptyMap)

AoInsert(t) ==
    /\ pc[t] = "ao_insert"
    /\ ~LadderGuarded(t)
    /\ AoStep(t, "ao_insert", "ao_unwrap")
    /\ IF local[t].order.side = "Buy"
       THEN bids' = InsertNewLadder(bids, local[t].order.symbol) /\ UNCHANGED asks
       ELSE asks' = InsertNewLadder(asks, local[t].order.symbol) /\ UNCHANGED bids
    /\ UNCHANGED <<order_index, insertions>>

\* self.bids.get_mut(&order.symbol).unwrap()
AoUnwrap(t) ==
    /\ pc[t] = "ao_unwrap"
    /\ ~LadderGuarded(t)
    /\ AoStep(t, "ao_unwrap", "ao_push")
    /\ UNCHANGED <<bids, asks, order_index, insertions>>

\* bids.entry(price_key).or_insert_with(Vec::new).push(order), and the guard
\* goes out of scope.
AoPush(t) ==
    /\ AoStep(t, "ao_push", "idle")
    /\ insertions' = insertions + 1
    /\ IF local[t].order.side = "Buy"
       THEN bids' = InsertIntoLadder(bids, local[t].order, insertions + 1) /\ UNCHANGED asks
       ELSE asks' = InsertIntoLadder(asks, local[t].order, insertions + 1) /\ UNCHANGED bids
    /\ UNCHANGED order_index

NextBookThreads ==
    \/ \E t \in Threads, order \in ThreadBookOrders : AoCall(t, order)
    \/ \E t \in Threads : AoIndex(t)
    \/ \E t \in Threads : AoGetMut(t)
    \/ \E t \in Threads : AoInsert(t)
    \/ \E t \in Threads : AoUnwrap(t)
    \/ \E t \in Threads : AoPush(t)

SpecBookThreads == Init /\ [][NextBookThreads]_vars

----------------------------------------------------------------------------
(* C34: concurrent add_order calls lose no order.                          *)

\* The call of t has returned and its order was a valid limit order.
Added(t) == pc[t] = "idle" /\ local[t].call = "add_order" /\ local[t].accepted

\* C34: concurrent add_order calls lose no order.  When two threads have called
\* add_order with valid limit orders of different ids on the same side of a
\* symbol that had no ladder when either call began, then after both calls have
\* returned both orders rest in the ladder and both ids are in the index.
C34_NoLostOrder ==
    \A t \in Threads : \A u \in Threads \ {t} :
        ( /\ Added(t) /\ Added(u)
          /\ local[t].order.symbol = local[u].order.symbol
          /\ local[t].order.side = local[u].order.side
          /\ ~local[t].had_ladder /\ ~local[u].had_ladder )
        => /\ RestingQty(local[t].order.id) = local[t].order.quantity
           /\ RestingQty(local[u].order.id) = local[u].order.quantity
           /\ {local[t].order.id, local[u].order.id} \subseteq DOMAIN order_index

----------------------------------------------------------------------------
(* to_orders: the bracketing pair of the market data adapter.  Prices and  *)
(* tick sizes are Decimals, written here in cents: a price is a fraction   *)
(* <<n, d>> of cents until it is rounded to the tick, a whole number of    *)
(* cents after that.                                                       *)

MaxClose == 12       \* close prices are 1 .. MaxClose cents
MaxTick == 3         \* tick sizes are 1 .. MaxTick cents

\* Decimal::round(): to the nearest whole number, a half to the even one.
\* n/d with n >= 0 and d > 0.
Round(n, d) ==
    LET q == n \div d
        r == n % d
    IN  IF 2 * r < d THEN q
        ELSE IF 2 * r > d THEN q + 1
        ELSE IF q % 2 = 0 THEN q ELSE q + 1

\* (price / tick_size).round() * tick_size
round_to_tick(price, tick_size) == Round(price[1], price[2] * tick_size) * tick_size

\* spread_pct = Decimal::new(1, 3)
SpreadPct == <<1, 1000>>

\* (self.volume * Decimal::new(1, 3)).max(Decimal::new(10, 0))
BaseQuantity(volume) ==
    IF FracLe(<<10, 1>>, Frac(volume, 1000)) THEN Frac(volume, 1000) ELSE <<10, 1>>

\* The two orders of a minute with this close and volume.
to_orders(close, volume, symbol, tick_size, ts) ==
    LET spread == Frac(close * SpreadPct[1], SpreadPct[2])
        below  == Frac(close * spread[2] - spread[1], spread[2])
        above  == Frac(close * spread[2] + spread[1], spread[2])
    IN  << [id |-> ts, symbol |-> symbol, price |-> round_to_tick(below, tick_size),
            quantity |-> BaseQuantity(volume), order_type |-> "Limit", side |-> "Buy",
            timestamp |-> ts],
           [id |-> ts + 1, symbol |-> symbol, price |-> round_to_tick(above, tick_size),
            quantity |-> BaseQuantity(volume), order_type |-> "Limit", side |-> "Sell",
            timestamp |-> ts] >>

\* The volumes of a minute: none, one that gives the least quantity, larger ones.
Volumes == {0, 10000, 10500, 20000}

\* A task turns a minute into its pair of orders.
ToOrders(t, close, volume, symbol, tick_size, ts) ==
    /\ pc[t] = "idle"
    /\ local' = [local EXCEPT ![t] =
                    [orders |-> to_orders(close, volume, symbol, tick_size, ts),
                     call |-> "to_orders", tick_size |-> tick_size, volume |-> volume,
                     close |-> close]]
    /\ UNCHANGED <<bids, asks, order_index, current_positions, avg_entry_prices, realized_pnl,
                   max_order_size, position_limits, message_rx, senders, run_pc, adding, pc,
                   locks, next_id, insertions, processed, lastMsg, lastFills, fillSum, sent,
                   ledger>>

\* The market data task of main.rs is the one caller, and AAPL its symbol.
MarketDataTask == "t1"

NextAdapter ==
    \E close \in 1..MaxClose, volume \in Volumes, tick_size \in 1..MaxTick, ts \in 0..1 :
        ToOrders(MarketDataTask, close, volume, "AAPL", tick_size, ts)

SpecAdapter == Init /\ [][NextAdapter]_vars

----------------------------------------------------------------------------
(* C36: the bracketing pair does not cross itself.                         *)

\* C36: the bracketing pair does not cross itself.  For every minute with a
\* close above 0 and every tick size above 0, to_orders gives one Buy and one
\* Sell limit order, and the price of the Buy, rounded to the tick, is strictly
\* below the price of the Sell, rounded to the tick.
C36_BuyBelowSell ==
    \A t \in Threads :
        local[t].call = "to_orders" =>
            /\ Len(local[t].orders) = 2
            /\ local[t].orders[1].side = "Buy" /\ local[t].orders[1].order_type = "Limit"
            /\ local[t].orders[2].side = "Sell" /\ local[t].orders[2].order_type = "Limit"
            /\ local[t].orders[1].price < local[t].orders[2].price

====
